---- MODULE Spec2Model ----
(***************************************************************************)
(* Model of the contacts micro-frontend (hnc-contacts-fe):                 *)
(*   - the contact-list view-model pipeline of ContactsPage                *)
(*     (status re-filter -> sort -> paginate) and the handlers that change *)
(*     its inputs,                                                         *)
(*   - getJoinDateRange of lib/utils.ts and its memoisation in the page,   *)
(*   - rolesApi.getAllRolesForContact.                                     *)
(* Strings that the code compares or lower-cases are sequences of UTF-16   *)
(* code units; dates are day numbers converted to and from civil dates.    *)
(***************************************************************************)
EXTENDS Integers, Sequences, FiniteSets, TLC

VARIABLES
    \* ContactsPage state (ContactsPage.tsx:69-91) and its list query
    rawContacts,      \* contactsResponse?.data || []
    searchQuery,
    filterStatus,
    filterType,
    joinDateFilter,
    currentPage,
    rowsPerPage,
    sortField,
    sortDirection,
    listStatus,       \* the list query: "loading", "success" or "error"
    joinDateRange,    \* the useMemo value of getJoinDateRange(joinDateFilter)
    rendered,         \* what the last render computed from the state
    lastAction,       \* the handler that ran last and the page it started from
    \* the environment of getJoinDateRange
    now,              \* the instant new Date() returns: hours since 1970-01-01T00:00Z
    tz,               \* the user's time zone: local time = UTC + tz hours
    mountedAt,        \* the instant the page was mounted
    \* one call of rolesApi.getAllRolesForContact
    rolesContact,     \* the contactId argument
    roleFetch,        \* per role type: what apiFetch settled with
    roleSettled,      \* per role type: what get<Type>ByContact settled with
    rolesResult,      \* what getAllRolesForContact settled with
    \* one call of apiFetch
    httpRequest,      \* the options of the call, the stored token, the headers sent
    httpReply,        \* what fetch settled with
    httpResult,       \* what apiFetch settled with
    fetchCalls,       \* how often apiFetch called fetch
    \* selection, modals and mutations of ContactsPage and SidePanel
    selectedContact,      \* ContactsPage: the id of the contact in the side panel
    isCreateModalOpen,
    editingContact,       \* ContactsPage: the id of the contact being edited
    deletingContact,
    isAddRoleModalOpen,   \* SidePanel
    editingRole,          \* SidePanel: the type of the role being edited
    removingRole,
    formInput,            \* what the user typed into the form of the open modal
    inFlight,             \* per mutation request: how many are awaiting the server
    queryCache,           \* per query key: "fresh", or "stale" (not fetched, or invalidated)
    mutEvent,             \* the request that settled in the last step, and how
    \* the notes tab of SidePanel
    contactDetails,       \* the contactDetails prop: null or the loaded details
    notesValue,
    isSavingNotes,
    notesInFlight,        \* the update requests awaiting the server
    notesSaves,           \* how many update requests handleNotesSave has issued
    serverNotes,          \* the notes the server holds for the contact
    notesEvent,           \* the event handled last
    \* the queries of the page and what it shows
    qParams,              \* the params object the page hands to useContacts
    qData,                \* the query cache: per key the response stored, or none
    qFetching,            \* the keys whose request awaits the server
    selectedContactDetails,
    view,                 \* what the table and the side panel were rendered with
    \* ContactForm and RoleForm
    formKind,             \* the form that is mounted: "contact" or "role"
    isEditMode,
    contactProp,          \* ContactForm: the contactType of the contact prop
    contactType,
    personData,
    orgData,
    existingRoleTypes,    \* RoleForm props
    editRoleType,
    roleType,
    playerData,
    partnerData,
    hncMemberData,
    errors,               \* per failing field the message shown
    submitted,            \* the onSubmit call of the last step, if it made one
    formEvent,            \* the event the form handled last
    \* adding a role in the side panel
    serverRoles,          \* the role types the contact holds on the server
    rolesFetching,        \* a request of the roles query awaits the server
    createPending,        \* the role type whose create request awaits the server
    \* opening the edit modal
    editFetching,         \* the contacts whose getById of handleOpenEditModal is awaited
    editRequested,        \* the contact for which 'Edit Details' was chosen last
    \* the backend behind GET /contacts
    serverContacts,       \* the contacts the server holds
    serverCoerces,        \* the server reads isActive=false as true
    \* more state of ContactsPage (ContactsPage.tsx:73, 83, 94-95)
    sidePanelTab,
    filtersExpanded,
    sidePanelWidth,
    isResizing,           \* isResizing.current
    resizeListeners       \* mousemove and mouseup listeners are on the document

pageVars == <<rawContacts, searchQuery, filterStatus, filterType, joinDateFilter,
              currentPage, rowsPerPage, sortField, sortDirection, listStatus,
              joinDateRange, rendered, lastAction>>

clockVars == <<now, tz, mountedAt>>

roleVars == <<rolesContact, roleFetch, roleSettled, rolesResult>>

httpVars == <<httpRequest, httpReply, httpResult, fetchCalls>>

dialogVars == <<isCreateModalOpen, editingContact, deletingContact,
                isAddRoleModalOpen, editingRole, removingRole, formInput>>

modalVars == <<selectedContact, dialogVars>>

mutVars == <<modalVars, inFlight, queryCache, mutEvent>>

notesVars == <<contactDetails, notesValue, isSavingNotes, notesInFlight, notesSaves,
               serverNotes, notesEvent>>

queryVars == <<qParams, qData, qFetching, selectedContactDetails, view>>

contactFormVars == <<contactProp, contactType, personData, orgData>>

roleFormVars == <<existingRoleTypes, editRoleType, roleType, playerData, partnerData,
                  hncMemberData>>

formVars == <<formKind, isEditMode, contactFormVars, roleFormVars, errors, submitted,
              formEvent>>

addRoleVars == <<serverRoles, rolesFetching, createPending>>

editVars == <<editFetching, editRequested>>

serverVars == <<serverContacts, serverCoerces>>

tabVars == <<sidePanelTab, filtersExpanded>>

resizeVars == <<sidePanelWidth, isResizing, resizeListeners>>

shellVars == <<editVars, serverVars, tabVars, resizeVars>>

uiVars == <<httpVars, mutVars, notesVars, queryVars, formVars, addRoleVars, shellVars>>

vars == <<pageVars, clockVars, roleVars, uiVars>>

\* what the actions of one part leave unchanged
notHttp == <<shellVars, addRoleVars, pageVars, clockVars, roleVars, mutVars, notesVars, queryVars, formVars>>
notMut == <<shellVars, addRoleVars, pageVars, clockVars, roleVars, httpVars, notesVars, queryVars, formVars>>
notNotes == <<shellVars, addRoleVars, pageVars, clockVars, roleVars, httpVars, mutVars, queryVars, formVars>>
notQuery == <<shellVars, addRoleVars, pageVars, clockVars, roleVars, httpVars, notesVars, formVars,
              dialogVars, inFlight, queryCache, mutEvent>>
notForm == <<shellVars, addRoleVars, pageVars, clockVars, roleVars, httpVars, mutVars, notesVars,
            queryVars>>
notAddRole == <<shellVars, pageVars, clockVars, rolesContact, roleFetch, roleSettled, httpVars,
               notesVars, queryVars, selectedContact, isCreateModalOpen, editingContact,
               deletingContact, editingRole, removingRole, formInput, inFlight,
               queryCache, mutEvent>>

-----------------------------------------------------------------------------
(* Bounds of the model *)

MaxContacts == 25      \* longest server response drawn
MaxSmallLen == 2       \* responses up to this length are drawn exhaustively
MaxPage == 3           \* largest page number drawn as a pipeline input
WindowDays == 372      \* days of the clock window that starts on 2023-12-30
MaxTicks == 6          \* hours the clock advances while the page is mounted
MaxRoles == 2          \* longest role list a role endpoint returns
MaxInFlight == 2       \* most mutation requests awaiting the server at once
MaxSaves == 2          \* most update requests the notes field issues
MaxServerContacts == 2 \* most contacts the server holds
MaxPointerSteps == 48  \* pointer positions are drawn up to 25 px times this

-----------------------------------------------------------------------------
(* Values *)

Null == <<-1>>         \* a null / missing field value (no string is <<-1>>)
NoSort == "none"       \* sortField === null
Undefined == "undefined"

STATUS_OPTIONS == {"", "active", "inactive"}
TYPE_OPTIONS == {"", "person", "organization"}
JOIN_DATE_OPTIONS == {"", "last_30_days", "last_90_days", "this_year", "last_year"}
ROWS_PER_PAGE_OPTIONS == {10, 20, 50}
SortFields == {NoSort, "displayName"}
SortDirections == {"asc", "desc"}
SearchTexts == {"", "al"}

\* display names: "", "a", "A", "b", "B", "ab" and null
NameList == << <<97>>, <<65>>, <<98>>, <<>>, <<66>>, Null, <<97, 98>> >>

Min(a, b) == IF a < b THEN a ELSE b
Max(a, b) == IF a > b THEN a ELSE b

-----------------------------------------------------------------------------
(* Strings *)

\* String.prototype.toLowerCase on one code unit (ASCII letters)
LowerUnit(c) == IF c >= 65 /\ c <= 90 THEN c + 32 ELSE c

ToLowerCase(s) == [i \in 1..Len(s) |-> LowerUnit(s[i])]

\* the relational operator < on two strings: code-unit lexicographic order
RECURSIVE StrLess(_, _)
StrLess(a, b) ==
    IF b = <<>> THEN FALSE
    ELSE IF a = <<>> THEN TRUE
    ELSE IF Head(a) # Head(b) THEN Head(a) < Head(b)
    ELSE StrLess(Tail(a), Tail(b))

-----------------------------------------------------------------------------
(* Dates: what the Date object computes (proleptic Gregorian calendar) *)

\* day number (days since 1970-01-01) of the civil date y-m-d
DaysFromCivil(y, m, d) ==
    LET yy == IF m <= 2 THEN y - 1 ELSE y
        era == yy \div 400
        yoe == yy - era * 400
        mp == IF m > 2 THEN m - 3 ELSE m + 9
        doy == (153 * mp + 2) \div 5 + d - 1
        doe == yoe * 365 + yoe \div 4 - yoe \div 100 + doy
    IN era * 146097 + doe - 719468

\* civil date <<y, m, d>> of a day number
CivilFromDays(z) ==
    LET zz == z + 719468
        era == zz \div 146097
        doe == zz - era * 146097
        yoe == (doe - doe \div 1460 + doe \div 36524 - doe \div 146096) \div 365
        doy == doe - (365 * yoe + yoe \div 4 - yoe \div 100)
        mp == (5 * doy + 2) \div 153
        d == doy - (153 * mp + 2) \div 5 + 1
        m == IF mp < 10 THEN mp + 3 ELSE mp - 9
    IN <<IF m <= 2 THEN yoe + era * 400 + 1 ELSE yoe + era * 400, m, d>>

\* Date.prototype.toISOString().split('T')[0]: the UTC civil date of an instant
ISODate(t) == CivilFromDays(t \div 24)

\* the local civil date of an instant in a zone
LocalDate(t, zone) == CivilFromDays((t + zone) \div 24)

\* Date.prototype.getFullYear: the local year
GetFullYear(t, zone) == LocalDate(t, zone)[1]

\* new Date(year, monthIndex, day): local midnight of that civil date
LocalMidnight(y, monthIndex, d, zone) == DaysFromCivil(y, monthIndex + 1, d) * 24 - zone

\* from.setDate(from.getDate() - n): the same local time of day n days earlier
SetDateBack(t, n, zone) ==
    LET local == t + zone
        day == local \div 24
        date == CivilFromDays(day)
        moved == DaysFromCivil(date[1], date[2], 1) + (date[3] - n) - 1
    IN moved * 24 + (local % 24) - zone

NoRange == [joinDateFrom |-> <<>>, joinDateTo |-> <<>>]

\* getJoinDateRange (lib/utils.ts:26-56)
GetJoinDateRange(filterValue, t, zone) ==
    LET today == t
        toDate == ISODate(today)
    IN CASE filterValue = "last_30_days" ->
              [joinDateFrom |-> ISODate(SetDateBack(today, 30, zone)), joinDateTo |-> toDate]
         [] filterValue = "last_90_days" ->
              [joinDateFrom |-> ISODate(SetDateBack(today, 90, zone)), joinDateTo |-> toDate]
         [] filterValue = "this_year" ->
              [joinDateFrom |-> ISODate(LocalMidnight(GetFullYear(today, zone), 0, 1, zone)),
               joinDateTo |-> toDate]
         [] filterValue = "last_year" ->
              LET lastYear == GetFullYear(today, zone) - 1
              IN [joinDateFrom |-> ISODate(LocalMidnight(lastYear, 0, 1, zone)),
                  joinDateTo |-> ISODate(LocalMidnight(lastYear, 11, 31, zone))]
         [] OTHER -> NoRange

\* the clock window and the time zones drawn
FirstInstant == DaysFromCivil(2023, 12, 30) * 24
Instants == FirstInstant..(FirstInstant + WindowDays * 24 - 1)
TimeZones == {-11, -5, 0, 2, 13}

-----------------------------------------------------------------------------
(* The view-model pipeline (ContactsPage.tsx:206-231) *)

RECURSIVE FilterSeq(_, _)
FilterSeq(s, status) ==
    IF s = <<>> THEN <<>>
    ELSE LET keep == IF status = "active" THEN Head(s).isActive ELSE ~Head(s).isActive
         IN (IF keep THEN <<Head(s)>> ELSE <<>>) \o FilterSeq(Tail(s), status)

\* the list as the server returned it, trusted to be filtered already
FilteredContacts_TrustServer(raw, status) == raw

FilteredContacts(raw, status) ==
    IF status # "" THEN FilterSeq(raw, status) ELSE raw

\* a[sortField] ?? '' followed by toLowerCase
SortKey(c, field) ==
    LET v == IF c[field] = Null THEN <<>> ELSE c[field]
    IN ToLowerCase(v)

\* the comparator without the toLowerCase calls
Compare_CaseSensitive(a, b, field, dir) ==
    IF field = NoSort THEN 0
    ELSE LET aValue == IF a[field] = Null THEN <<>> ELSE a[field]
             bValue == IF b[field] = Null THEN <<>> ELSE b[field]
         IN IF StrLess(aValue, bValue) THEN (IF dir = "asc" THEN -1 ELSE 1)
            ELSE IF StrLess(bValue, aValue) THEN (IF dir = "asc" THEN 1 ELSE -1)
            ELSE 0

\* the comparator handed to Array.prototype.sort
Compare(a, b, field, dir) ==
    IF field = NoSort THEN 0
    ELSE LET aValue == SortKey(a, field)
             bValue == SortKey(b, field)
         IN IF StrLess(aValue, bValue) THEN (IF dir = "asc" THEN -1 ELSE 1)
            ELSE IF StrLess(bValue, aValue) THEN (IF dir = "asc" THEN 1 ELSE -1)
            ELSE 0

\* Array.prototype.sort is stable: an element goes right after the last
\* element that does not compare greater than it
RECURSIVE InsertPos(_, _, _, _, _)
InsertPos(s, x, k, field, dir) ==
    IF k = 0 THEN 0
    ELSE IF Compare(s[k], x, field, dir) > 0 THEN InsertPos(s, x, k - 1, field, dir)
    ELSE k

InsertSorted(s, x, field, dir) ==
    LET k == InsertPos(s, x, Len(s), field, dir)
    IN SubSeq(s, 1, k) \o <<x>> \o SubSeq(s, k + 1, Len(s))

RECURSIVE SortFrom(_, _, _, _)
SortFrom(done, rest, field, dir) ==
    IF rest = <<>> THEN done
    ELSE SortFrom(InsertSorted(done, Head(rest), field, dir), Tail(rest), field, dir)

AllContacts(filtered, field, dir) == SortFrom(<<>>, filtered, field, dir)

\* Math.ceil(totalItems / rowsPerPage)
TotalPages(totalItems, rpp) == (totalItems + rpp - 1) \div rpp

\* the start index taken from a 0-based page number
StartIndex_ZeroBased(page, rpp) == page * rpp

StartIndex(page, rpp) == (page - 1) * rpp

EndIndex(page, rpp, totalItems) == Min(StartIndex(page, rpp) + rpp, totalItems)

\* a slice whose start is clamped to the last element
Slice_ClampLast(s, start, end) ==
    LET from == Min(start, Max(Len(s) - 1, 0))
        to == Min(Max(end, from + 1), Len(s))
    IN IF from >= to THEN <<>> ELSE SubSeq(s, from + 1, to)

\* Array.prototype.slice(start, end) for start, end >= 0
Slice(s, start, end) ==
    LET from == Min(start, Len(s))
        to == Min(end, Len(s))
    IN IF from >= to THEN <<>> ELSE SubSeq(s, from + 1, to)

Pipeline(raw, status, field, dir, rpp, page) ==
    LET filtered == FilteredContacts(raw, status)
        all == AllContacts(filtered, field, dir)
        total == Len(all)
    IN [ rawContacts |-> raw,
         filterStatus |-> status,
         sortField |-> field,
         sortDirection |-> dir,
         rowsPerPage |-> rpp,
         currentPage |-> page,
         filteredContacts |-> filtered,
         allContacts |-> all,
         totalItems |-> total,
         totalPages |-> TotalPages(total, rpp),
         startIndex |-> StartIndex(page, rpp),
         endIndex |-> EndIndex(page, rpp, total),
         paginatedContacts |-> Slice(all, StartIndex(page, rpp), EndIndex(page, rpp, total)) ]

NotRendered == [totalItems |-> -1]

-----------------------------------------------------------------------------
(* Server responses *)

Contact(i, active, name) == [id |-> i, isActive |-> active, displayName |-> name]

\* every response of up to MaxSmallLen rows named "a", "A", "b" or null
SmallNames == {<<97>>, <<65>>, <<98>>, Null}

SmallRows == [isActive : BOOLEAN, displayName : SmallNames]

SmallResponses ==
    UNION { { [i \in 1..n |-> Contact(i, f[i].isActive, f[i].displayName)] :
                f \in [1..n -> SmallRows] } : n \in 0..MaxSmallLen }

\* longer responses: row i is active by one of three patterns (all, every
\* other one, three out of five) and named by stepping through NameList
ActiveAt(p, i) ==
    CASE p = 1 -> TRUE
      [] p = 2 -> i % 2 = 0
      [] OTHER -> i % 5 < 3

NameAt(q, i) == NameList[((i * q) % Len(NameList)) + 1]

LargeResponses ==
    { [i \in 1..n |-> Contact(i, ActiveAt(p, i), NameAt(q, i))] :
        n \in (MaxSmallLen + 1)..MaxContacts, p \in 1..3, q \in {1, 3} }

RawResponses == SmallResponses \cup LargeResponses

-----------------------------------------------------------------------------
(* Roles of a contact (features/contacts/api/contacts-api.ts:170-199) *)

RoleTypes == {"players", "partners", "hncMembers"}
ContactIds == {"c1", "c2"}

Role(i, c) == [id |-> i, contactId |-> c]

\* the lists a role endpoint returns: roles of either contact or of none
RoleLists ==
    UNION { { [i \in 1..n |-> Role(i, f[i])] : f \in [1..n -> ContactIds \cup {"none"}] } :
              n \in 0..MaxRoles }

Pending == [kind |-> "pending"]

\* what apiFetch settles with: it throws (a non-2xx status, a transport
\* failure), resolves undefined (204) or resolves the parsed body
FetchOutcomes ==
    {[kind |-> "error"], [kind |-> "noContent"], [kind |-> "body", hasData |-> FALSE, data |-> <<>>]}
      \cup {[kind |-> "body", hasData |-> TRUE, data |-> l] : l \in RoleLists}

RECURSIVE FilterByContact(_, _)
FilterByContact(l, c) ==
    IF l = <<>> THEN <<>>
    ELSE (IF Head(l).contactId = c THEN <<Head(l)>> ELSE <<>>) \o FilterByContact(Tail(l), c)

Fulfilled(v) == [status |-> "fulfilled", value |-> v]
Rejected == [status |-> "rejected", value |-> <<>>]

\* get<Type>ByContact returning the server's list as it came
GetRolesByContact_TrustServer(outcome, c) ==
    CASE outcome.kind = "error" -> [status |-> "rejected", value |-> <<>>]
      [] outcome.kind = "noContent" -> [status |-> "rejected", value |-> <<>>]
      [] OTHER -> [status |-> "fulfilled",
                   value |-> IF outcome.hasData THEN outcome.data ELSE <<>>]

\* getPlayersByContact / getPartnersByContact / getHncMembersByContact:
\* (response.data || []).filter(r => r.contactId === contactId)
GetRolesByContact(outcome, c) ==
    CASE outcome.kind = "error" -> Rejected
      [] outcome.kind = "noContent" -> Rejected        \* undefined.data throws
      [] OTHER -> Fulfilled(FilterByContact(IF outcome.hasData THEN outcome.data ELSE <<>>, c))

\* the aggregate built on Promise.all: one rejection rejects the whole call
GetAllRolesResult_PromiseAll(settled) ==
    IF \E t \in RoleTypes : settled[t].status = "rejected"
    THEN Rejected
    ELSE Fulfilled([t \in RoleTypes |-> settled[t].value])

\* the return value built from the Promise.allSettled results
GetAllRolesResult(settled) ==
    Fulfilled([t \in RoleTypes |->
                 IF settled[t].status = "fulfilled" THEN settled[t].value ELSE <<>>])

\* no call of apiFetch has been made
HttpIdle ==
    /\ httpRequest = [kind |-> "none"]
    /\ httpReply = [kind |-> "none"]
    /\ httpResult = [kind |-> "none"]
    /\ fetchCalls = 0

\* nothing selected, no modal open, no mutation issued
MutIdle ==
    /\ selectedContact = "none"
    /\ isCreateModalOpen = FALSE
    /\ editingContact = "none"
    /\ deletingContact = "none"
    /\ isAddRoleModalOpen = FALSE
    /\ editingRole = "none"
    /\ removingRole = "none"
    /\ formInput = ""
    /\ inFlight = <<>>
    /\ queryCache = <<>>
    /\ mutEvent = [name |-> "none", contact |-> "none", ok |-> TRUE]

\* the side panel is not mounted
NotesIdle ==
    /\ contactDetails = [kind |-> "null"]
    /\ notesValue = ""
    /\ isSavingNotes = FALSE
    /\ notesInFlight = <<>>
    /\ notesSaves = 0
    /\ serverNotes = ""
    /\ notesEvent = "mount"

\* no query has been made
QueryIdle ==
    /\ qParams = "none"
    /\ qData = <<>>
    /\ qFetching = {}
    /\ selectedContactDetails = [kind |-> "null"]
    /\ view = <<>>

\* no form is mounted
FormIdle ==
    /\ formKind = "none"
    /\ isEditMode = FALSE
    /\ contactProp = "none"
    /\ contactType = "person"
    /\ personData = <<>>
    /\ orgData = <<>>
    /\ existingRoleTypes = {}
    /\ editRoleType = "none"
    /\ roleType = "player"
    /\ playerData = <<>>
    /\ partnerData = <<>>
    /\ hncMemberData = <<>>
    /\ errors = <<>>
    /\ submitted = [called |-> FALSE]
    /\ formEvent = "mount"

\* no 'Edit Details' has been asked for
EditIdle ==
    /\ editFetching = {}
    /\ editRequested = "none"

\* no request has reached the server
ServerIdle ==
    /\ serverContacts = <<>>
    /\ serverCoerces = FALSE

\* the page as mounted: details tab, filters collapsed (ContactsPage.tsx:73, 83)
TabIdle ==
    /\ sidePanelTab = "details"
    /\ filtersExpanded = FALSE

\* the side panel at its first width, no drag going on (ContactsPage.tsx:94-95)
ResizeIdle ==
    /\ sidePanelWidth = 420
    /\ isResizing = FALSE
    /\ resizeListeners = FALSE

ShellIdle == EditIdle /\ ServerIdle /\ TabIdle /\ ResizeIdle

\* no role is being added
AddRoleIdle ==
    /\ serverRoles = {}
    /\ rolesFetching = FALSE
    /\ createPending = "none"

\* the parts of the model that a specification of another part leaves alone
UiIdle ==
    /\ HttpIdle
    /\ MutIdle
    /\ NotesIdle
    /\ QueryIdle
    /\ FormIdle
    /\ AddRoleIdle
    /\ ShellIdle

RolesIdle ==
    /\ rolesContact = "none"
    /\ roleFetch = [t \in RoleTypes |-> Pending]
    /\ roleSettled = [t \in RoleTypes |-> Pending]
    /\ rolesResult = Pending

\* getAllRolesForContact(contactId): the three requests are issued
GetAllRolesForContact ==
    /\ rolesContact = "none"
    /\ \E c \in ContactIds : rolesContact' = c
    /\ UNCHANGED <<roleFetch, roleSettled, rolesResult, pageVars, clockVars, uiVars>>

\* one of the three requests settles; with the last one Promise.allSettled
\* resolves and the call returns
RoleRequestSettles ==
    /\ rolesContact # "none"
    /\ \E t \in RoleTypes, o \in FetchOutcomes :
         /\ roleFetch[t] = Pending
         /\ roleFetch' = [roleFetch EXCEPT ![t] = o]
         /\ roleSettled' = [roleSettled EXCEPT ![t] = GetRolesByContact(o, rolesContact)]
    /\ rolesResult' = IF \A t \in RoleTypes : roleSettled'[t] # Pending
                      THEN GetAllRolesResult(roleSettled')
                      ELSE rolesResult
    /\ UNCHANGED <<rolesContact, pageVars, clockVars, uiVars>>

InitRoles ==
    /\ RolesIdle
    /\ UiIdle
    /\ rawContacts = <<>>
    /\ listStatus = "loading"
    /\ searchQuery = ""
    /\ filterStatus = ""
    /\ filterType = ""
    /\ joinDateFilter = ""
    /\ currentPage = 1
    /\ rowsPerPage = 10
    /\ sortField = NoSort
    /\ sortDirection = "asc"
    /\ joinDateRange = NoRange
    /\ rendered = NotRendered
    /\ lastAction = [name |-> "mount", pageBefore |-> 1]
    /\ now = FirstInstant
    /\ tz = 0
    /\ mountedAt = now

NextRoles == GetAllRolesForContact \/ RoleRequestSettles

SpecRoles == InitRoles /\ [][NextRoles]_vars

-----------------------------------------------------------------------------
(* The list query and the render (ContactsPage.tsx:100-111, 206-231) *)

\* the params object handed to useContacts: the key of the list query
ListParams(status, type, search, range) ==
    [ isActive |-> IF status = "active" THEN "true"
                   ELSE IF status = "inactive" THEN "false" ELSE Undefined,
      contactType |-> IF type = "" THEN Undefined ELSE type,
      search |-> IF search = "" THEN Undefined ELSE search,
      limit |-> 500,
      joinDateFrom |-> range.joinDateFrom,
      joinDateTo |-> range.joinDateTo ]

\* the responses the list query of the page settles with
PageResponses ==
    { [i \in 1..n |-> Contact(i, ActiveAt(3, i), NameAt(1, i))] : n \in {0, 12, MaxContacts} }

\* useMemo(() => getJoinDateRange(joinDateFilter), [joinDateFilter])
MemoNext ==
    joinDateRange' = IF joinDateFilter' # joinDateFilter
                     THEN GetJoinDateRange(joinDateFilter', now', tz')
                     ELSE joinDateRange

\* useQuery under a new key holds no data until the request for it settles
\* (a cached key is a request that settles at once)
QueryNext ==
    IF ListParams(filterStatus', filterType', searchQuery', joinDateRange')
         # ListParams(filterStatus, filterType, searchQuery, joinDateRange)
    THEN listStatus' = "loading" /\ rawContacts' = <<>>
    ELSE UNCHANGED <<listStatus, rawContacts>>

\* the render that follows a state update
RenderNext ==
    rendered' = Pipeline(rawContacts', filterStatus', sortField', sortDirection',
                         rowsPerPage', currentPage')

Did(name) == lastAction' = [name |-> name, pageBefore |-> currentPage]

TableShown == listStatus = "success" /\ rendered.totalItems > 0

hasActiveFilters ==
    searchQuery # "" \/ filterStatus # "" \/ filterType # "" \/ joinDateFilter # ""

-----------------------------------------------------------------------------
(* The page: handlers of ContactsPage *)

Init ==
    /\ rawContacts = <<>>
    /\ listStatus = "loading"
    /\ searchQuery = ""
    /\ filterStatus = ""
    /\ filterType = ""
    /\ joinDateFilter = ""
    /\ currentPage = 1
    /\ rowsPerPage = 10
    /\ sortField = NoSort
    /\ sortDirection = "asc"
    /\ joinDateRange = NoRange
    /\ rendered = Pipeline(<<>>, "", NoSort, "asc", 10, 1)
    /\ lastAction = [name |-> "mount", pageBefore |-> 1]
    /\ now = FirstInstant
    /\ tz = 0
    /\ mountedAt = now
    /\ RolesIdle
    /\ UiIdle

\* the list query settles (first load, or a refetch)
ListResponse ==
    /\ listStatus \in {"loading", "success"}
    /\ \E r \in PageResponses : rawContacts' = r
    /\ listStatus' = "success"
    /\ Did("listResponse")
    /\ UNCHANGED <<searchQuery, filterStatus, filterType, joinDateFilter, currentPage,
                   rowsPerPage, sortField, sortDirection, joinDateRange, clockVars, roleVars, uiVars>>
    /\ RenderNext

ListError ==
    /\ listStatus = "loading"
    /\ listStatus' = "error"
    /\ Did("listError")
    /\ UNCHANGED <<rawContacts, searchQuery, filterStatus, filterType, joinDateFilter,
                   currentPage, rowsPerPage, sortField, sortDirection, joinDateRange,
                   clockVars, roleVars, uiVars>>
    /\ RenderNext

\* the handler without its setCurrentPage(1)
HandleSort_KeepPage ==
    /\ TableShown
    /\ IF sortField = "displayName"
       THEN /\ sortDirection' = (IF sortDirection = "asc" THEN "desc" ELSE "asc")
            /\ UNCHANGED sortField
       ELSE /\ sortField' = "displayName"
            /\ sortDirection' = "asc"
    /\ UNCHANGED currentPage
    /\ Did("handleSort")
    /\ UNCHANGED <<rawContacts, listStatus, searchQuery, filterStatus, filterType,
                   joinDateFilter, rowsPerPage, joinDateRange, clockVars, roleVars, uiVars>>
    /\ RenderNext

\* handleSort('displayName') (ContactsPage.tsx:154-162)
HandleSort ==
    /\ TableShown
    /\ IF sortField = "displayName"
       THEN /\ sortDirection' = (IF sortDirection = "asc" THEN "desc" ELSE "asc")
            /\ UNCHANGED sortField
       ELSE /\ sortField' = "displayName"
            /\ sortDirection' = "asc"
    /\ currentPage' = 1
    /\ Did("handleSort")
    /\ UNCHANGED <<rawContacts, listStatus, searchQuery, filterStatus, filterType,
                   joinDateFilter, rowsPerPage, joinDateRange, clockVars, roleVars, uiVars>>
    /\ RenderNext

\* rows-per-page onChange (ContactsPage.tsx:357-360)
SetRowsPerPage ==
    \E v \in ROWS_PER_PAGE_OPTIONS :
        /\ rowsPerPage' = v
        /\ currentPage' = 1
        /\ Did("setRowsPerPage")
        /\ UNCHANGED <<rawContacts, listStatus, searchQuery, filterStatus, filterType,
                       joinDateFilter, sortField, sortDirection, joinDateRange, clockVars, roleVars, uiVars>>
        /\ RenderNext

\* search input onChange (ContactsPage.tsx:376-379)
SetSearchQuery ==
    \E v \in SearchTexts :
        /\ searchQuery' = v
        /\ currentPage' = 1
        /\ Did("setSearchQuery")
        /\ UNCHANGED <<filterStatus, filterType, joinDateFilter, rowsPerPage, sortField,
                       sortDirection, joinDateRange, clockVars, roleVars, uiVars>>
        /\ QueryNext
        /\ RenderNext

\* type filter onChange (ContactsPage.tsx:393-396)
SetFilterType ==
    \E v \in TYPE_OPTIONS :
        /\ filterType' = v
        /\ currentPage' = 1
        /\ Did("setFilterType")
        /\ UNCHANGED <<searchQuery, filterStatus, joinDateFilter, rowsPerPage, sortField,
                       sortDirection, joinDateRange, clockVars, roleVars, uiVars>>
        /\ QueryNext
        /\ RenderNext

\* status filter onChange (ContactsPage.tsx:404-407)
SetFilterStatus ==
    \E v \in STATUS_OPTIONS :
        /\ filterStatus' = v
        /\ currentPage' = 1
        /\ Did("setFilterStatus")
        /\ UNCHANGED <<searchQuery, filterType, joinDateFilter, rowsPerPage, sortField,
                       sortDirection, joinDateRange, clockVars, roleVars, uiVars>>
        /\ QueryNext
        /\ RenderNext

\* join-date filter onChange (ContactsPage.tsx:415-418)
SetJoinDateFilter ==
    \E v \in JOIN_DATE_OPTIONS :
        /\ joinDateFilter' = v
        /\ currentPage' = 1
        /\ Did("setJoinDateFilter")
        /\ UNCHANGED <<searchQuery, filterStatus, filterType, rowsPerPage, sortField,
                       sortDirection, clockVars, roleVars, uiVars>>
        /\ MemoNext
        /\ QueryNext
        /\ RenderNext

\* clearFilters that leaves the join-date filter as it is
ClearFilters_KeepJoinDate ==
    /\ hasActiveFilters
    /\ searchQuery' = ""
    /\ filterStatus' = ""
    /\ filterType' = ""
    /\ currentPage' = 1
    /\ Did("clearFilters")
    /\ UNCHANGED <<joinDateFilter, rowsPerPage, sortField, sortDirection, clockVars, roleVars, uiVars>>
    /\ MemoNext
    /\ QueryNext
    /\ RenderNext

\* clearFilters that also puts the sort back to its first state
ClearFilters_ResetSort ==
    /\ hasActiveFilters
    /\ searchQuery' = ""
    /\ filterStatus' = ""
    /\ filterType' = ""
    /\ joinDateFilter' = ""
    /\ currentPage' = 1
    /\ sortField' = NoSort
    /\ sortDirection' = "asc"
    /\ Did("clearFilters")
    /\ UNCHANGED <<rowsPerPage, clockVars, roleVars, uiVars>>
    /\ MemoNext
    /\ QueryNext
    /\ RenderNext

\* clearFilters (ContactsPage.tsx:196-202): its five state updates are one batch
ClearFilters ==
    /\ hasActiveFilters
    /\ searchQuery' = ""
    /\ filterStatus' = ""
    /\ filterType' = ""
    /\ joinDateFilter' = ""
    /\ currentPage' = 1
    /\ Did("clearFilters")
    /\ UNCHANGED <<rowsPerPage, sortField, sortDirection, clockVars, roleVars, uiVars>>
    /\ MemoNext
    /\ QueryNext
    /\ RenderNext

PageFrame ==
    UNCHANGED <<rawContacts, listStatus, searchQuery, filterStatus, filterType,
                joinDateFilter, rowsPerPage, sortField, sortDirection, joinDateRange,
                clockVars, roleVars, uiVars>>

\* pagination buttons (ContactsPage.tsx:669-709)
FirstPage ==
    /\ TableShown /\ currentPage # 1
    /\ currentPage' = 1
    /\ Did("firstPage") /\ PageFrame /\ RenderNext

PrevPage ==
    /\ TableShown /\ currentPage # 1
    /\ currentPage' = Max(1, currentPage - 1)
    /\ Did("prevPage") /\ PageFrame /\ RenderNext

NextPage ==
    /\ TableShown /\ currentPage # rendered.totalPages /\ rendered.totalPages # 0
    /\ currentPage' = Min(rendered.totalPages, currentPage + 1)
    /\ Did("nextPage") /\ PageFrame /\ RenderNext

LastPage ==
    /\ TableShown /\ currentPage # rendered.totalPages /\ rendered.totalPages # 0
    /\ currentPage' = rendered.totalPages
    /\ Did("lastPage") /\ PageFrame /\ RenderNext

Next ==
    \/ ListResponse
    \/ ListError
    \/ HandleSort
    \/ SetRowsPerPage
    \/ SetSearchQuery
    \/ SetFilterType
    \/ SetFilterStatus
    \/ SetJoinDateFilter
    \/ ClearFilters
    \/ FirstPage
    \/ PrevPage
    \/ NextPage
    \/ LastPage

Spec == Init /\ [][Next]_vars

-----------------------------------------------------------------------------
(* Pipeline alone: the inputs are drawn, one render computes the rows *)

InitPipe ==
    /\ rawContacts \in RawResponses
    /\ listStatus = "success"
    /\ filterStatus \in STATUS_OPTIONS
    /\ sortField \in SortFields
    /\ sortDirection \in SortDirections
    /\ rowsPerPage \in ROWS_PER_PAGE_OPTIONS
    /\ currentPage \in 1..MaxPage
    /\ searchQuery = ""
    /\ filterType = ""
    /\ joinDateFilter = ""
    /\ joinDateRange = NoRange
    /\ rendered = NotRendered
    /\ lastAction = [name |-> "mount", pageBefore |-> 1]
    /\ now = FirstInstant
    /\ tz = 0
    /\ mountedAt = now
    /\ RolesIdle
    /\ UiIdle

Render ==
    /\ rendered = NotRendered
    /\ rendered' = Pipeline(rawContacts, filterStatus, sortField, sortDirection,
                            rowsPerPage, currentPage)
    /\ UNCHANGED <<rawContacts, listStatus, searchQuery, filterStatus, filterType,
                   joinDateFilter, currentPage, rowsPerPage, sortField, sortDirection,
                   joinDateRange, lastAction, clockVars, roleVars, uiVars>>

NextPipe == Render

SpecPipe == InitPipe /\ [][NextPipe]_vars

-----------------------------------------------------------------------------
(* getJoinDateRange alone: an instant and a zone are drawn, one call evaluates *)

InitDate ==
    /\ now \in Instants
    /\ tz \in TimeZones
    /\ mountedAt = now
    /\ RolesIdle
    /\ UiIdle
    /\ joinDateFilter = ""
    /\ joinDateRange = NoRange
    /\ lastAction = [name |-> "mount", pageBefore |-> 1]
    /\ rawContacts = <<>>
    /\ listStatus = "loading"
    /\ searchQuery = ""
    /\ filterStatus = ""
    /\ filterType = ""
    /\ currentPage = 1
    /\ rowsPerPage = 10
    /\ sortField = NoSort
    /\ sortDirection = "asc"
    /\ rendered = NotRendered

Evaluate ==
    /\ lastAction.name = "mount"
    /\ \E v \in JOIN_DATE_OPTIONS :
         /\ joinDateFilter' = v
         /\ joinDateRange' = GetJoinDateRange(v, now, tz)
    /\ lastAction' = [name |-> "getJoinDateRange", pageBefore |-> 1]
    /\ UNCHANGED <<rawContacts, listStatus, searchQuery, filterStatus, filterType,
                   currentPage, rowsPerPage, sortField, sortDirection, rendered,
                   clockVars, roleVars, uiVars>>

NextDate == Evaluate

SpecDate == InitDate /\ [][NextDate]_vars

-----------------------------------------------------------------------------
(* The mounted page while the clock advances *)

\* instants late in the UTC day, on New Year's Eve and in mid-June
ClockStarts ==
    {DaysFromCivil(2024, 12, 31) * 24 + 21, DaysFromCivil(2024, 6, 15) * 24 + 21}

InitClock ==
    /\ now \in ClockStarts
    /\ tz \in TimeZones
    /\ mountedAt = now
    /\ RolesIdle
    /\ UiIdle
    /\ rawContacts = <<>>
    /\ listStatus = "loading"
    /\ searchQuery = ""
    /\ filterStatus = ""
    /\ filterType = ""
    /\ joinDateFilter = ""
    /\ currentPage = 1
    /\ rowsPerPage = 10
    /\ sortField = NoSort
    /\ sortDirection = "asc"
    /\ joinDateRange = NoRange
    /\ rendered = Pipeline(<<>>, "", NoSort, "asc", 10, 1)
    /\ lastAction = [name |-> "mount", pageBefore |-> 1]

\* an hour passes; nothing renders
Tick ==
    /\ now - mountedAt < MaxTicks
    /\ now' = now + 1
    /\ lastAction' = [name |-> "tick", pageBefore |-> currentPage]
    /\ UNCHANGED <<rawContacts, listStatus, searchQuery, filterStatus, filterType,
                   joinDateFilter, currentPage, rowsPerPage, sortField, sortDirection,
                   joinDateRange, rendered, tz, mountedAt, roleVars, uiVars>>

NextClock ==
    \/ Tick
    \/ SetJoinDateFilter
    \/ SetRowsPerPage
    \/ ListResponse

SpecClock == InitClock /\ [][NextClock]_vars

-----------------------------------------------------------------------------
(* The page before anything has happened on it: the state the              *)
(* specifications of the other parts leave it in                           *)

PageIdle ==
    /\ rawContacts = <<>>
    /\ listStatus = "loading"
    /\ searchQuery = ""
    /\ filterStatus = ""
    /\ filterType = ""
    /\ joinDateFilter = ""
    /\ currentPage = 1
    /\ rowsPerPage = 10
    /\ sortField = NoSort
    /\ sortDirection = "asc"
    /\ joinDateRange = NoRange
    /\ rendered = NotRendered
    /\ lastAction = [name |-> "mount", pageBefore |-> 1]
    /\ now = FirstInstant
    /\ tz = 0
    /\ mountedAt = now

-----------------------------------------------------------------------------
(* apiFetch (api/contacts-api.ts:53-89)                                    *)

HttpStatuses == {200, 201, 204, 400, 401, 403, 404, 500}
HttpMethods == {"GET", "POST", "PATCH", "DELETE"}

\* response bodies: not JSON (or empty), the JSON values null and "text",
\* and JSON objects with or without the fields detail and message
JsonObjects ==
    [json : {"object"}, detail : {Undefined, "d"}, message : {Undefined, "m"}]
HttpBodies ==
    {[json |-> "invalid"], [json |-> "null"], [json |-> "string"]} \cup JsonObjects

EmptyObject == [json |-> "object", detail |-> Undefined, message |-> Undefined]

\* what fetch settles with: a response, or a rejection (network down, CORS)
HttpReplies ==
    {[kind |-> "failure", error |-> [name |-> "TypeError", message |-> "Failed to fetch"]]}
      \cup [kind : {"response"}, status : HttpStatuses, body : HttpBodies]

\* response.ok
Ok(status) == status >= 200 /\ status =< 299

\* what getAuthItem('access_token', 'hnc_') returns: null, '' or a token
NoToken == "(null)"
Tokens == {NoToken, "", "t"}

\* apiFetch calls the contacts service, gamingAccountsFetch the gaming-accounts
\* service; the two wrappers have the same body
Services == {"contacts", "gaming-accounts"}

\* the calls of a fetch wrapper: the service, the method, whether options.body is
\* given, and the stored token
HttpCalls == [service : Services, method : HttpMethods, hasBody : BOOLEAN, token : Tokens]

\* the headers apiFetch gives to fetch
Headers(call) ==
    [authorization |-> IF call.token \notin {NoToken, ""}
                       THEN "Bearer " \o call.token ELSE Undefined,
     contentType |-> IF call.hasBody THEN "application/json" ELSE Undefined]

Resolved(v) == [kind |-> "resolved", value |-> v]
Thrown(e) == [kind |-> "rejected", error |-> e]

\* new ApiError(message, status, data)
ApiError(message, status, data) ==
    [name |-> "ApiError", message |-> message, status |-> status, data |-> data]

\* data.detail || data.message || `HTTP ${response.status}`
ErrorMessage(data, status) ==
    IF data.json = "object" /\ data.detail # Undefined THEN data.detail
    ELSE IF data.json = "object" /\ data.message # Undefined THEN data.message
    ELSE "HTTP " \o ToString(status)

\* the non-ok branch: response.json().catch(() => ({})) and the throw;
\* reading data.detail of null throws a TypeError instead
NotOk(reply) ==
    LET data == IF reply.body.json = "invalid" THEN EmptyObject ELSE reply.body
    IN  IF data.json = "null"
        THEN Thrown([name |-> "TypeError", message |-> "Cannot read properties of null"])
        ELSE Thrown(ApiError(ErrorMessage(data, reply.status), reply.status, data))

\* what apiFetch settles with once fetch has settled with reply
ApiFetchResult(reply) ==
    IF reply.kind = "failure" THEN Thrown(reply.error)
    ELSE IF reply.status = 204 THEN Resolved(Undefined)
    ELSE IF ~Ok(reply.status) THEN NotOk(reply)
    ELSE IF reply.body.json = "invalid"
         THEN Thrown([name |-> "SyntaxError", message |-> "Unexpected end of JSON input"])
         ELSE Resolved(reply.body)

\* apiFetch(endpoint, options) builds the headers and calls fetch
ApiFetch ==
    /\ httpRequest.kind = "call"
    /\ fetchCalls = 0
    /\ httpRequest' = [httpRequest EXCEPT !.kind = "sent", !.headers = Headers(httpRequest.call)]
    /\ fetchCalls' = fetchCalls + 1
    /\ UNCHANGED <<httpReply, httpResult, notHttp>>

\* fetch settles and apiFetch runs to its return or throw
FetchSettles ==
    /\ httpRequest.kind = "sent"
    /\ httpResult.kind = "pending"
    /\ \E r \in HttpReplies :
         /\ httpReply' = r
         /\ httpResult' = ApiFetchResult(r)
    /\ UNCHANGED <<httpRequest, fetchCalls, notHttp>>

InitHttp ==
    /\ PageIdle
    /\ RolesIdle
    /\ \E c \in HttpCalls :
         httpRequest = [kind |-> "call", call |-> c,
                        headers |-> [authorization |-> Undefined, contentType |-> Undefined]]
    /\ httpReply = [kind |-> "none"]
    /\ httpResult = [kind |-> "pending"]
    /\ fetchCalls = 0
    /\ MutIdle
    /\ NotesIdle
    /\ QueryIdle
    /\ FormIdle
    /\ AddRoleIdle
    /\ ShellIdle

NextHttp == ApiFetch \/ FetchSettles

SpecHttp == InitHttp /\ [][NextHttp]_vars

-----------------------------------------------------------------------------
(* Selection, modals and mutations of ContactsPage (ContactsPage.tsx:      *)
(* 117-194, 536-650, 740-789), SidePanel (the role modals) and the         *)
(* mutation hooks of use-contacts                                          *)

NoContact == "none"
NoRole == "none"

\* mutEvent when the last handler was not the settling of a request
NoSettle == [name |-> "none", contact |-> "none", ok |-> TRUE]
RoleKinds == {"player", "partner", "hnc_member"}

\* contactsKeys: the list queries, detail(id) and roles(contactId)
ListKey == [q |-> "list", id |-> ""]
DetailKey(c) == [q |-> "detail", id |-> c]
RolesKey(c) == [q |-> "roles", id |-> c]
QueryKeys == {ListKey} \cup {DetailKey(c) : c \in ContactIds} \cup {RolesKey(c) : c \in ContactIds}

\* the keys that start with contactsKeys.all = ['contacts']: every one
AllKeys == QueryKeys

\* the mutation requests: the contact of a create request is the new one
ContactRequests ==
    {[action |-> "create", contact |-> "new"]}
      \cup [action : {"update", "delete", "toggle"}, contact : ContactIds]
RoleRequests == [action : {"addRole", "editRole", "removeRole"}, contact : ContactIds]
MutationRequests == ContactRequests \cup RoleRequests

RECURSIVE SumOver(_, _)
SumOver(f, S) ==
    IF S = {} THEN 0
    ELSE LET x == CHOOSE y \in S : TRUE IN f[x] + SumOver(f, S \ {x})

TotalInFlight == SumOver(inFlight, MutationRequests)

\* mutation.isPending of the hook that sends requests of this action
IsPending(action) == \E r \in MutationRequests : r.action = action /\ inFlight[r] > 0

\* mutation.mutate(...): the request leaves
Mutate(r) == [inFlight EXCEPT ![r] = @ + 1]

\* queryClient.invalidateQueries without marking anything
InvalidateQueries_Skip(cache, keys) == cache

\* queryClient.invalidateQueries({queryKey}): the cached queries under the
\* key become stale
InvalidateQueries(cache, keys) ==
    [k \in QueryKeys |-> IF k \in keys /\ cache[k] = "fresh" THEN "stale" ELSE cache[k]]

\* the queries with a mounted observer: the list, and detail and roles of
\* the selected contact
ActiveKeys(sel) ==
    {ListKey} \cup (IF sel = NoContact THEN {} ELSE {DetailKey(sel), RolesKey(sel)})

NoModalOpen ==
    /\ ~isCreateModalOpen
    /\ editingContact = NoContact
    /\ deletingContact = NoContact
    /\ ~isAddRoleModalOpen
    /\ editingRole = NoRole
    /\ removingRole = NoRole

\* the active queries that are stale are fetched and the responses stored
\* (taken in one step: this part is about what the mutations do to the cache)
QueryFetched ==
    /\ \E k \in ActiveKeys(selectedContact) : queryCache[k] # "fresh"
    /\ queryCache' = [k \in QueryKeys |->
                        IF k \in ActiveKeys(selectedContact) THEN "fresh" ELSE queryCache[k]]
    /\ mutEvent' = NoSettle
    /\ UNCHANGED <<modalVars, inFlight, notMut>>

\* the row's onClick (ContactsPage.tsx:536-545)
RowClick ==
    /\ NoModalOpen
    /\ \E c \in ContactIds :
         /\ selectedContact' = IF selectedContact = c THEN NoContact ELSE c
         /\ mutEvent' = NoSettle
    /\ UNCHANGED <<isCreateModalOpen, editingContact, deletingContact, isAddRoleModalOpen,
                   editingRole, removingRole, formInput, inFlight, queryCache, notMut>>

\* the user types into the form of the open modal
TypeInput ==
    /\ isCreateModalOpen \/ editingContact # NoContact \/ isAddRoleModalOpen
         \/ editingRole # NoRole
    /\ formInput = ""
    /\ formInput' = "x"
    /\ mutEvent' = NoSettle
    /\ UNCHANGED <<selectedContact, isCreateModalOpen, editingContact, deletingContact,
                   isAddRoleModalOpen, editingRole, removingRole, inFlight, queryCache,
                   notMut>>

\* the next values of the modal state and of the form input
SetModals(create, editing, deleting, addRole, edRole, rmRole, input) ==
    /\ isCreateModalOpen' = create
    /\ editingContact' = editing
    /\ deletingContact' = deleting
    /\ isAddRoleModalOpen' = addRole
    /\ editingRole' = edRole
    /\ removingRole' = rmRole
    /\ formInput' = input

KeepModals ==
    UNCHANGED <<isCreateModalOpen, editingContact, deletingContact, isAddRoleModalOpen,
                editingRole, removingRole, formInput>>

\* a modal is opened: 'New Contact' (ContactsPage.tsx:305), onEdit /
\* handleOpenEditModal (183-194), onDelete (590-592), and in the side panel
\* 'Add' and the pencil and bin of a role badge; the form mounts with its
\* initial values
OpenModal ==
    /\ NoModalOpen
    /\ \/ /\ SetModals(TRUE, NoContact, NoContact, FALSE, NoRole, NoRole, "")
          /\ mutEvent' = NoSettle
       \/ \E c \in ContactIds :
            /\ SetModals(FALSE, c, NoContact, FALSE, NoRole, NoRole, "")
            /\ mutEvent' = NoSettle
       \/ \E c \in ContactIds :
            /\ SetModals(FALSE, NoContact, c, FALSE, NoRole, NoRole, "")
            /\ mutEvent' = NoSettle
       \/ /\ selectedContact # NoContact
          /\ SetModals(FALSE, NoContact, NoContact, TRUE, NoRole, NoRole, "")
          /\ mutEvent' = NoSettle
       \/ \E t \in RoleKinds :
            /\ selectedContact # NoContact
            /\ SetModals(FALSE, NoContact, NoContact, FALSE, t, NoRole, "")
            /\ mutEvent' = NoSettle
       \/ \E t \in RoleKinds :
            /\ selectedContact # NoContact
            /\ SetModals(FALSE, NoContact, NoContact, FALSE, NoRole, t, "")
            /\ mutEvent' = NoSettle
    /\ UNCHANGED <<selectedContact, inFlight, queryCache, notMut>>

\* the onClose of the open modal (Cancel, Escape, the X)
CloseModal ==
    /\ ~NoModalOpen
    /\ SetModals(FALSE, NoContact, NoContact, FALSE, NoRole, NoRole, "")
    /\ mutEvent' = NoSettle
    /\ UNCHANGED <<selectedContact, inFlight, queryCache, notMut>>

\* handleCreateContact (ContactsPage.tsx:164-166): the create form is
\* rendered without isSubmitting (ContactFormModal.tsx:52-64), so its submit
\* button stays enabled while the mutation is pending
HandleCreateContact ==
    /\ isCreateModalOpen
    /\ TotalInFlight < MaxInFlight
    /\ inFlight' = Mutate([action |-> "create", contact |-> "new"])
    /\ mutEvent' = NoSettle
    /\ KeepModals
    /\ UNCHANGED <<selectedContact, queryCache, notMut>>

\* handleUpdateContact (ContactsPage.tsx:168-175)
HandleUpdateContact ==
    /\ editingContact # NoContact
    /\ TotalInFlight < MaxInFlight
    /\ inFlight' = Mutate([action |-> "update", contact |-> editingContact])
    /\ mutEvent' = NoSettle
    /\ KeepModals
    /\ UNCHANGED <<selectedContact, queryCache, notMut>>

\* handleDeleteConfirm (ContactsPage.tsx:177-181); the confirm button is
\* disabled while isLoading (Modal.tsx:142-143)
HandleDeleteConfirm ==
    /\ deletingContact # NoContact
    /\ ~IsPending("delete")
    /\ TotalInFlight < MaxInFlight
    /\ inFlight' = Mutate([action |-> "delete", contact |-> deletingContact])
    /\ mutEvent' = NoSettle
    /\ KeepModals
    /\ UNCHANGED <<selectedContact, queryCache, notMut>>

\* onToggleActive up to its await (ContactsPage.tsx:615-620): the menu item
\* has no pending state
OnToggleActive ==
    /\ NoModalOpen
    /\ TotalInFlight < MaxInFlight
    /\ \E c \in ContactIds :
         /\ inFlight' = Mutate([action |-> "toggle", contact |-> c])
         /\ mutEvent' = NoSettle
    /\ KeepModals
    /\ UNCHANGED <<selectedContact, queryCache, notMut>>

\* handleAddRole (SidePanel:161-167): addRole, then the modal is closed and
\* with it the RoleForm unmounted (Modal.tsx:49); the form's submit button is
\* disabled while isAddingRole (RoleForm.tsx:548)
HandleAddRole ==
    /\ isAddRoleModalOpen
    /\ ~IsPending("addRole")
    /\ TotalInFlight < MaxInFlight
    /\ inFlight' = Mutate([action |-> "addRole", contact |-> selectedContact])
    /\ mutEvent' = NoSettle
    /\ SetModals(isCreateModalOpen, editingContact, deletingContact, FALSE,
                 editingRole, removingRole, "")
    /\ UNCHANGED <<selectedContact, queryCache, notMut>>

\* handleUpdateRole (SidePanel:169-173)
HandleUpdateRole ==
    /\ editingRole # NoRole
    /\ ~IsPending("editRole")
    /\ TotalInFlight < MaxInFlight
    /\ inFlight' = Mutate([action |-> "editRole", contact |-> selectedContact])
    /\ mutEvent' = NoSettle
    /\ SetModals(isCreateModalOpen, editingContact, deletingContact, isAddRoleModalOpen,
                 NoRole, removingRole, "")
    /\ UNCHANGED <<selectedContact, queryCache, notMut>>

\* handleRemoveRole (SidePanel:175-179)
HandleRemoveRole ==
    /\ removingRole # NoRole
    /\ ~IsPending("removeRole")
    /\ TotalInFlight < MaxInFlight
    /\ inFlight' = Mutate([action |-> "removeRole", contact |-> selectedContact])
    /\ mutEvent' = NoSettle
    /\ SetModals(isCreateModalOpen, editingContact, deletingContact, isAddRoleModalOpen,
                 editingRole, NoRole, formInput)
    /\ UNCHANGED <<selectedContact, queryCache, notMut>>

\* the request leaves the set of those awaiting the server
Settle(r) == [inFlight EXCEPT ![r] = @ - 1]

\* a create request settles: onSuccess / onError of useCreateContact
\* (use-contacts:80-98) and of createContactMutation (ContactsPage.tsx:117-121)
CreateSettles ==
    LET r == [action |-> "create", contact |-> "new"] IN
    /\ inFlight[r] > 0
    /\ inFlight' = Settle(r)
    /\ \E ok \in BOOLEAN :
         /\ mutEvent' = [name |-> "create", contact |-> "new", ok |-> ok]
         /\ IF ok
            THEN /\ queryCache' = InvalidateQueries(queryCache, AllKeys)
                 /\ SetModals(FALSE, editingContact, deletingContact, isAddRoleModalOpen,
                              editingRole, removingRole,
                              IF isCreateModalOpen THEN "" ELSE formInput)
            ELSE /\ KeepModals
                 /\ UNCHANGED queryCache
    /\ UNCHANGED <<selectedContact, notMut>>

\* an update request settles: useUpdateContact (use-contacts:100-120) and
\* updateContactMutation (ContactsPage.tsx:122-131)
UpdateSettles ==
    \E c \in ContactIds :
      LET r == [action |-> "update", contact |-> c] IN
      /\ inFlight[r] > 0
      /\ inFlight' = Settle(r)
      /\ \E ok \in BOOLEAN :
           /\ mutEvent' = [name |-> "update", contact |-> c, ok |-> ok]
           /\ IF ok
              THEN /\ queryCache' =
                        InvalidateQueries(
                          InvalidateQueries(
                            InvalidateQueries(queryCache, AllKeys), {DetailKey(c)}),
                          IF editingContact # NoContact
                          THEN {DetailKey(editingContact)} ELSE {})
                   /\ SetModals(isCreateModalOpen, NoContact, deletingContact,
                                isAddRoleModalOpen, editingRole, removingRole,
                                IF editingContact # NoContact THEN "" ELSE formInput)
              ELSE /\ KeepModals
                   /\ UNCHANGED queryCache
      /\ UNCHANGED <<selectedContact, notMut>>

\* a delete request settles: useDeleteContact (use-contacts:122-140) and
\* deleteContactMutation (ContactsPage.tsx:132-139); with the selection
\* cleared the SidePanel and its modals unmount
DeleteSettles ==
    \E c \in ContactIds :
      LET r == [action |-> "delete", contact |-> c] IN
      /\ inFlight[r] > 0
      /\ inFlight' = Settle(r)
      /\ \E ok \in BOOLEAN :
           /\ mutEvent' = [name |-> "delete", contact |-> c, ok |-> ok]
           /\ IF ok
              THEN /\ queryCache' = InvalidateQueries(queryCache, AllKeys)
                   /\ selectedContact' = NoContact
                   /\ SetModals(isCreateModalOpen, editingContact, NoContact, FALSE,
                                NoRole, NoRole,
                                IF isCreateModalOpen \/ editingContact # NoContact
                                THEN formInput ELSE "")
              ELSE /\ KeepModals
                   /\ UNCHANGED <<queryCache, selectedContact>>
      /\ UNCHANGED notMut

\* onToggleActive after its await (ContactsPage.tsx:620-639)
ToggleSettles ==
    \E c \in ContactIds :
      LET r == [action |-> "toggle", contact |-> c] IN
      /\ inFlight[r] > 0
      /\ inFlight' = Settle(r)
      /\ \E ok \in BOOLEAN :
           /\ mutEvent' = [name |-> "toggle", contact |-> c, ok |-> ok]
           /\ queryCache' = IF ok
                            THEN InvalidateQueries(
                                   InvalidateQueries(queryCache, AllKeys), {DetailKey(c)})
                            ELSE queryCache
      /\ KeepModals
      /\ UNCHANGED <<selectedContact, notMut>>

\* a role request settles: onSuccess / onError of the mutations of
\* useCreateRole, useUpdateRole and useDeleteRole (use-contacts:144-300)
RoleMutationSettles ==
    \E r \in RoleRequests :
      /\ inFlight[r] > 0
      /\ inFlight' = Settle(r)
      /\ \E ok \in BOOLEAN :
           /\ mutEvent' = [name |-> r.action, contact |-> r.contact, ok |-> ok]
           /\ queryCache' = IF ok
                            THEN InvalidateQueries(queryCache, {RolesKey(r.contact)})
                            ELSE queryCache
      /\ KeepModals
      /\ UNCHANGED <<selectedContact, notMut>>

InitMut ==
    /\ PageIdle
    /\ RolesIdle
    /\ HttpIdle
    /\ selectedContact = NoContact
    /\ isCreateModalOpen = FALSE
    /\ editingContact = NoContact
    /\ deletingContact = NoContact
    /\ isAddRoleModalOpen = FALSE
    /\ editingRole = NoRole
    /\ removingRole = NoRole
    /\ formInput = ""
    /\ inFlight = [r \in MutationRequests |-> 0]
    /\ queryCache = [k \in QueryKeys |-> "stale"]
    /\ mutEvent = NoSettle
    /\ NotesIdle
    /\ QueryIdle
    /\ FormIdle
    /\ AddRoleIdle
    /\ ShellIdle

NextMut ==
    \/ QueryFetched
    \/ RowClick
    \/ TypeInput
    \/ OpenModal
    \/ CloseModal
    \/ HandleCreateContact
    \/ HandleUpdateContact
    \/ HandleDeleteConfirm
    \/ OnToggleActive
    \/ HandleAddRole
    \/ HandleUpdateRole
    \/ HandleRemoveRole
    \/ CreateSettles
    \/ UpdateSettles
    \/ DeleteSettles
    \/ ToggleSettles
    \/ RoleMutationSettles

SpecMut == InitMut /\ [][NextMut]_vars

-----------------------------------------------------------------------------
(* The notes tab of SidePanel (SidePanel:69-71, 109-141, 565-600)          *)

\* notes values: null, '' and two texts
NotesTexts == {"", "a", "b"}
ServerNotes == {"(null)"} \cup NotesTexts

NoDetails == [kind |-> "null"]
Details(type, notes) == [kind |-> "details", contactType |-> type, notes |-> notes]

\* the notes of the details read as they come: null is not ''
CurrentNotes_Raw(details) == details.notes

\* contactDetails.personDetails?.notes || contactDetails.organizationDetails?.notes || ''
CurrentNotes(details) ==
    IF details.notes \in {"(null)", ""} THEN "" ELSE details.notes

\* the detail query delivers: ContactsPage copies it into selectedContactDetails
\* and the effect of SidePanel sets notesValue (SidePanel:109-118)
DetailsLoaded ==
    /\ \E type \in {"person", "organization"} :
         /\ contactDetails.kind = "details" => type = contactDetails.contactType
         /\ contactDetails' = Details(type, serverNotes)
    /\ contactDetails' # contactDetails
    /\ notesValue' = CurrentNotes(contactDetails')
    /\ notesEvent' = "detailsLoaded"
    /\ UNCHANGED <<isSavingNotes, notesInFlight, notesSaves, serverNotes, notNotes>>

\* another contact is selected: setSelectedContactDetails(null); the panel
\* stays mounted and keeps notesValue
DetailsCleared ==
    /\ contactDetails # NoDetails
    /\ contactDetails' = NoDetails
    /\ \E n \in ServerNotes : serverNotes' = n
    /\ notesEvent' = "detailsCleared"
    /\ UNCHANGED <<notesValue, isSavingNotes, notesInFlight, notesSaves, notNotes>>

\* onChange of the textarea (SidePanel:578)
NotesChange ==
    /\ \E v \in NotesTexts :
         /\ v # notesValue
         /\ notesValue' = v
    /\ notesEvent' = "change"
    /\ UNCHANGED <<contactDetails, isSavingNotes, notesInFlight, notesSaves, serverNotes,
                   notNotes>>

\* onBlur of the textarea: handleNotesSave up to its await (SidePanel:121-132)
HandleNotesSave ==
    /\ notesEvent' = "blur"
    /\ IF contactDetails = NoDetails
       THEN UNCHANGED <<isSavingNotes, notesInFlight, notesSaves>>
       ELSE IF notesValue = CurrentNotes(contactDetails)
       THEN UNCHANGED <<isSavingNotes, notesInFlight, notesSaves>>
       ELSE /\ notesSaves < MaxSaves
            /\ isSavingNotes' = TRUE
            /\ notesInFlight' =
                 Append(notesInFlight,
                        [notes |-> IF notesValue = "" THEN "(null)" ELSE notesValue,
                         currentNotes |-> CurrentNotes(contactDetails)])
            /\ notesSaves' = notesSaves + 1
    /\ UNCHANGED <<contactDetails, notesValue, serverNotes, notNotes>>

\* the update request settles: handleNotesSave after its await
\* (SidePanel:133-140)
NotesSaveSettles ==
    /\ \E i \in 1..Len(notesInFlight), ok \in BOOLEAN :
         /\ notesInFlight' = [j \in 1..(Len(notesInFlight) - 1) |->
                                IF j < i THEN notesInFlight[j] ELSE notesInFlight[j + 1]]
         /\ IF ok
            THEN /\ serverNotes' = notesInFlight[i].notes
                 /\ UNCHANGED notesValue
            ELSE /\ notesValue' = notesInFlight[i].currentNotes
                 /\ UNCHANGED serverNotes
    /\ isSavingNotes' = FALSE
    /\ notesEvent' = "settled"
    /\ UNCHANGED <<contactDetails, notesSaves, notNotes>>

InitNotes ==
    /\ PageIdle
    /\ RolesIdle
    /\ HttpIdle
    /\ MutIdle
    /\ contactDetails = NoDetails
    /\ notesValue = ""
    /\ isSavingNotes = FALSE
    /\ notesInFlight = <<>>
    /\ notesSaves = 0
    /\ serverNotes \in ServerNotes
    /\ notesEvent = "mount"
    /\ QueryIdle
    /\ FormIdle
    /\ AddRoleIdle
    /\ ShellIdle

NextNotes ==
    \/ DetailsLoaded
    \/ DetailsCleared
    \/ NotesChange
    \/ HandleNotesSave
    \/ NotesSaveSettles

SpecNotes == InitNotes /\ [][NextNotes]_vars

-----------------------------------------------------------------------------
(* The queries of the page: contactsKeys, useContacts, useContact,         *)
(* useContactRoles (use-contacts:26-59) and their use in ContactsPage      *)
(* (ContactsPage.tsx:103-115, 141-146, 536-545, 585-590, 740-748)          *)

\* the params objects the filters produce here
QParams == {ListParams(status, type, "", NoRange) :
              status \in {"", "active"}, type \in {"", "person"}}

\* contactsKeys.list(params), contactsKeys.detail(id), contactsKeys.roles(id)
ListQuery(params) == [q |-> "list", params |-> params]
DetailQuery(c) == [q |-> "detail", id |-> c]
RolesQuery(c) == [q |-> "roles", id |-> c]
Queries ==
    {ListQuery(p) : p \in QParams}
      \cup {DetailQuery(c) : c \in ContactIds} \cup {RolesQuery(c) : c \in ContactIds}

NoData == [kind |-> "null"]

\* what the server answers to the request of a query: a list for its
\* params, the details or the roles of its contact
Response(k) == [kind |-> "data", of |-> k]

\* the data useQuery returns for a key
QueryDataOf(data, k) == data[k]

\* the observers mounted with this selection: the queries that are fetched
Observed(params, sel) ==
    {ListQuery(params)} \cup
      (IF sel = NoContact THEN {} ELSE {DetailQuery(sel), RolesQuery(sel)})

\* contactDetails of the render with this selection
ContactDetailsOf(data, sel) ==
    IF sel = NoContact THEN NoData ELSE QueryDataOf(data, DetailQuery(sel))

\* the click handlers leaving selectedContactDetails as it is
DetailsOnSelect_Keep(details) == details

\* setSelectedContactDetails(null) of the click handlers
DetailsOnSelect(details) == NoData

\* the effect that syncs contactDetails into selectedContactDetails
\* (ContactsPage.tsx:141-146): it runs when contactDetails has changed
SyncDetails(before, after, details) ==
    IF after # before /\ after # NoData THEN after ELSE details

\* what the render hands to the table and to the side panel
ViewOf(params, data, sel, details) ==
    [rows |-> QueryDataOf(data, ListQuery(params)),
     contact |-> sel,
     contactDetails |-> IF sel = NoContact THEN NoData ELSE details,
     roles |-> IF sel = NoContact THEN NoData ELSE QueryDataOf(data, RolesQuery(sel))]

\* the state after a handler that sets params and selection: the observers
\* of the new keys fetch, the effect runs, the page is rendered
AfterHandler(params, sel, details) ==
    /\ qParams' = params
    /\ selectedContact' = sel
    /\ qFetching' = qFetching \cup (Observed(params, sel) \ Observed(qParams, selectedContact))
    /\ selectedContactDetails' =
         SyncDetails(ContactDetailsOf(qData, selectedContact), ContactDetailsOf(qData, sel),
                     details)
    /\ view' = ViewOf(params, qData, sel, selectedContactDetails')
    /\ UNCHANGED <<qData, notQuery>>

\* a filter is changed: the page hands other params to useContacts
SetListParams ==
    \E p \in QParams :
       /\ p # qParams
       /\ AfterHandler(p, selectedContact, selectedContactDetails)

\* the row's onClick (ContactsPage.tsx:536-545)
SelectRow ==
    \E c \in ContactIds :
       AfterHandler(qParams, IF selectedContact = c THEN NoContact ELSE c,
                    DetailsOnSelect(selectedContactDetails))

\* onView, onGamingAccounts, onDeals of the row menu (ContactsPage.tsx:585-590)
OnView ==
    \E c \in ContactIds :
       AfterHandler(qParams, c, DetailsOnSelect(selectedContactDetails))

Keys == {"Escape", "ArrowUp", "ArrowDown", "Enter"}

\* paginatedContacts.findIndex(c => c.id === selectedContact.id), 0-based
FindIndex(page, id) ==
    IF \E i \in 1..Len(page) : page[i] = id
    THEN (CHOOSE i \in 1..Len(page) : page[i] = id /\ \A j \in 1..(i - 1) : page[j] # id) - 1
    ELSE -1

NewIndex_NoWrap(key, currentIndex, n) ==
    IF key = "ArrowUp" THEN Max(currentIndex - 1, 0) ELSE Min(currentIndex + 1, n - 1)

\* newIndex of handleKeyDown
NewIndex(key, currentIndex, n) ==
    IF key = "ArrowUp"
    THEN (IF currentIndex > 0 THEN currentIndex - 1 ELSE n - 1)
    ELSE (IF currentIndex < n - 1 THEN currentIndex + 1 ELSE 0)

\* handleKeyDown leaving selectedContactDetails as it is
HandleKeyDown_KeepDetails(key, sel, page) ==
    IF key = "Escape" /\ sel # NoContact
    THEN [selected |-> NoContact, clears |-> FALSE]
    ELSE IF sel # NoContact /\ key \in {"ArrowUp", "ArrowDown"} /\ FindIndex(page, sel) # -1
    THEN [selected |-> page[NewIndex(key, FindIndex(page, sel), Len(page)) + 1],
          clears |-> FALSE]
    ELSE [selected |-> sel, clears |-> FALSE]

\* handleKeyDown (ContactsPage.tsx:234-263): the selection it sets, and whether it
\* calls setSelectedContactDetails(null)
HandleKeyDown(key, sel, page) ==
    IF key = "Escape" /\ sel # NoContact
    THEN [selected |-> NoContact, clears |-> TRUE]
    ELSE IF sel # NoContact /\ key \in {"ArrowUp", "ArrowDown"} /\ FindIndex(page, sel) # -1
    THEN [selected |-> page[NewIndex(key, FindIndex(page, sel), Len(page)) + 1],
          clears |-> TRUE]
    ELSE [selected |-> sel, clears |-> FALSE]

\* the pages of contact ids the table can show once the list has data
QueryPages(data, params) ==
    IF QueryDataOf(data, ListQuery(params)) = NoData THEN {<<>>}
    ELSE {<<>>} \cup {<<c>> : c \in ContactIds}
           \cup {<<p[1], p[2]>> : p \in {q \in ContactIds \X ContactIds : q[1] # q[2]}}

\* a key is pressed while the table shows some page
KeyDown ==
    \E key \in Keys, page \in QueryPages(qData, qParams) :
       LET r == HandleKeyDown(key, selectedContact, page)
       IN AfterHandler(qParams, r.selected,
                       IF r.clears THEN DetailsOnSelect(selectedContactDetails)
                       ELSE selectedContactDetails)

\* the response of a request arrives, whatever the page shows by now, and is
\* stored under the key of its request
ResponseArrives ==
    \E k \in qFetching :
       /\ qFetching' = qFetching \ {k}
       /\ qData' = [qData EXCEPT ![k] = Response(k)]
       /\ selectedContactDetails' =
            SyncDetails(ContactDetailsOf(qData, selectedContact),
                        ContactDetailsOf(qData', selectedContact), selectedContactDetails)
       /\ view' = ViewOf(qParams, qData', selectedContact, selectedContactDetails')
       /\ UNCHANGED <<qParams, selectedContact, notQuery>>

\* an observed query is fetched again (window focus, invalidation)
Refetch ==
    \E k \in Observed(qParams, selectedContact) \ qFetching :
       /\ qData[k] # NoData
       /\ qFetching' = qFetching \cup {k}
       /\ UNCHANGED <<qParams, qData, selectedContact, selectedContactDetails, view, notQuery>>

InitQuery ==
    /\ PageIdle
    /\ RolesIdle
    /\ HttpIdle
    /\ NotesIdle
    /\ selectedContact = NoContact
    /\ isCreateModalOpen = FALSE
    /\ editingContact = NoContact
    /\ deletingContact = NoContact
    /\ isAddRoleModalOpen = FALSE
    /\ editingRole = NoRole
    /\ removingRole = NoRole
    /\ formInput = ""
    /\ inFlight = <<>>
    /\ queryCache = <<>>
    /\ mutEvent = NoSettle
    /\ qParams = ListParams("", "", "", NoRange)
    /\ qData = [k \in Queries |-> NoData]
    /\ qFetching = {ListQuery(qParams)}
    /\ selectedContactDetails = NoData
    /\ view = ViewOf(qParams, qData, NoContact, NoData)
    /\ FormIdle
    /\ AddRoleIdle
    /\ ShellIdle

NextQuery ==
    \/ SetListParams
    \/ SelectRow
    \/ OnView
    \/ KeyDown
    \/ ResponseArrives
    \/ Refetch

SpecQuery == InitQuery /\ [][NextQuery]_vars

\* the server answers every request; what the user does next is up to the user
SpecQueryFair == SpecQuery /\ WF_vars(ResponseArrives)

-----------------------------------------------------------------------------
(* ContactForm and RoleForm: validation and submit *)

ContactTypes == {"person", "organization"}

\* the values typed into the text fields
Names == {"", "Ann"}
EmailInputs == {"", "ann@hnc.co", "ann@hnc"}
MemberTypeInputs == {"", "founder", "employee"}
MemberCodes == {"", "M1"}
Today == "2025-01-15"
DateInputs == {"", Today}

\* z.string().email(): the address needs a dotted domain
IsEmail(e) == e \in {"ann@hnc.co"}

NoErrors == <<>>
NoCall == [called |-> FALSE]

PersonIssues_NameOnly(data) ==
    [f \in {g \in {"firstName"} : data[g] = ""} |-> "First name is required"]

\* personSchema.safeParse
PersonIssues(data) ==
    [f \in {g \in {"firstName", "email"} :
               \/ g = "firstName" /\ data.firstName = ""
               \/ g = "email" /\ data.email # "" /\ ~IsEmail(data.email)} |->
        IF f = "firstName" THEN "First name is required" ELSE "Invalid email address"]

\* organizationSchema.safeParse
OrganizationIssues(data) ==
    [f \in {g \in {"legalName"} : data[g] = ""} |-> "Legal name is required"]

\* playerSchema.safeParse and partnerSchema.safeParse
ShortNameIssues(data) ==
    [f \in {g \in {"shortName"} : data[g] = ""} |-> "Short name is required"]

HncMessages ==
    [fullName |-> "Full name is required",
     memberType |-> "Invalid enum value. Expected 'founder' | 'employee', received ''",
     memberCode |-> "Member code is required",
     joinedDate |-> "Joined date is required"]

\* the keys of hncMemberSchema, without memberCode and joinedDate in edit mode
HncSchemaKeys(edit) ==
    IF edit THEN {"fullName", "memberType"}
    ELSE {"fullName", "memberType", "memberCode", "joinedDate"}

HncMemberIssues(data, edit) ==
    [f \in {g \in HncSchemaKeys(edit) :
               IF g = "memberType" THEN data[g] \notin {"founder", "employee"}
               ELSE data[g] = ""} |-> HncMessages[f]]

OrNull(v) == IF v = "" THEN Null ELSE v

\* the object ContactForm hands to onSubmit
ContactPayload(type, person, org, edit) ==
    LET fields ==
            IF type = "person"
            THEN [displayName |-> person.firstName,
                  firstName |-> person.firstName,
                  email |-> OrNull(person.email)]
            ELSE [displayName |-> org.legalName,
                  legalName |-> org.legalName]
    IN IF edit THEN fields
       ELSE [f \in DOMAIN fields \cup {"contactType"} |->
                IF f = "contactType" THEN type ELSE fields[f]]

\* the object RoleForm hands to onSubmit
RolePayload(type, player, partner, member, edit) ==
    IF type = "player" THEN [shortName |-> player.shortName]
    ELSE IF type = "partner" THEN [shortName |-> partner.shortName]
    ELSE IF edit THEN [fullName |-> member.fullName, memberType |-> member.memberType]
    ELSE [fullName |-> member.fullName, memberType |-> member.memberType,
          memberCode |-> member.memberCode, joinedDate |-> member.joinedDate]

NextContactType_Unlocked(edit, current, clicked) == clicked

\* the onClick of a type selector button
NextContactType(edit, current, clicked) ==
    IF ~edit THEN clicked ELSE current

NextErrorsOnClick(edit, current) ==
    IF ~edit THEN NoErrors ELSE current

AvailableRoleTypes(existing) == RoleKinds \ existing

\* availableRoleTypes[0] || 'player', in the order player, partner, hnc_member
FirstAvailable(existing) ==
    IF "player" \notin existing THEN "player"
    ELSE IF "partner" \notin existing THEN "partner"
    ELSE IF "hnc_member" \notin existing THEN "hnc_member"
    ELSE "player"

InitialRoleType(edit, editType, existing) ==
    IF edit /\ editType # "none" THEN editType ELSE FirstAvailable(existing)

IsRoleTypeDisabled(edit, editType, existing, type) ==
    IF edit THEN type # editType ELSE type \in existing

AllRolesAssigned(edit, existing) ==
    ~edit /\ AvailableRoleTypes(existing) = {}

BlankPerson == [firstName |-> "", email |-> ""]
BlankOrganization == [legalName |-> ""]

ContactFormIdle ==
    /\ contactProp = "none"
    /\ contactType = "person"
    /\ personData = <<>>
    /\ orgData = <<>>

RoleFormIdle ==
    /\ existingRoleTypes = {}
    /\ editRoleType = "none"
    /\ roleType = "player"
    /\ playerData = <<>>
    /\ partnerData = <<>>
    /\ hncMemberData = <<>>

\* ContactForm is mounted, to create a contact or to edit the contact prop
MountContactForm ==
    /\ formKind = "contact"
    /\ isEditMode \in BOOLEAN
    /\ contactProp \in (IF isEditMode THEN ContactTypes ELSE {"none"})
    /\ contactType = (IF contactProp # "none" THEN contactProp ELSE "person")
    /\ personData \in (IF contactProp = "person"
                       THEN [firstName : Names \ {""}, email : {"", "ann@hnc.co"}]
                       ELSE {BlankPerson})
    /\ orgData \in (IF contactProp = "organization"
                    THEN [legalName : Names \ {""}]
                    ELSE {BlankOrganization})
    /\ RoleFormIdle

\* RoleForm is mounted, to add a role or to edit the role editRole
MountRoleForm ==
    /\ formKind = "role"
    /\ isEditMode \in BOOLEAN
    /\ existingRoleTypes \in SUBSET RoleKinds
    /\ editRoleType \in (IF isEditMode THEN existingRoleTypes ELSE {"none"})
    /\ roleType = InitialRoleType(isEditMode, editRoleType, existingRoleTypes)
    /\ \E contactName \in (IF isEditMode THEN {""} ELSE Names) :
          /\ playerData \in (IF editRoleType = "player"
                             THEN [shortName : Names \ {""}]
                             ELSE {[shortName |-> contactName]})
          /\ partnerData \in (IF editRoleType = "partner"
                              THEN [shortName : Names \ {""}]
                              ELSE {[shortName |-> contactName]})
          /\ hncMemberData \in
                (IF editRoleType = "hnc_member"
                 THEN [fullName : Names \ {""}, memberType : {"founder", "employee"},
                       memberCode : MemberCodes \ {""}, joinedDate : {""}]
                 ELSE {[fullName |-> contactName, memberType |-> "employee",
                        memberCode |-> "", joinedDate |-> Today]})
    /\ ContactFormIdle

\* the fields of the form that are on the screen and enabled
ContactFields == IF contactType = "person" THEN {"firstName", "email"} ELSE {"legalName"}

RoleFields ==
    IF AllRolesAssigned(isEditMode, existingRoleTypes) THEN {}
    ELSE IF roleType \in {"player", "partner"} THEN {"shortName"}
    ELSE IF isEditMode THEN {"fullName", "memberType"}
    ELSE {"fullName", "memberType", "memberCode", "joinedDate"}

InputsOf(field) ==
    IF field = "email" THEN EmailInputs
    ELSE IF field = "memberType" THEN MemberTypeInputs
    ELSE IF field = "memberCode" THEN MemberCodes
    ELSE IF field = "joinedDate" THEN DateInputs
    ELSE Names

\* the onChange of a ContactForm input
ContactFieldChange ==
    /\ formKind = "contact"
    /\ \E f \in ContactFields : \E v \in InputsOf(f) :
          IF contactType = "person"
          THEN /\ personData' = [personData EXCEPT ![f] = v]
               /\ UNCHANGED orgData
          ELSE /\ orgData' = [orgData EXCEPT ![f] = v]
               /\ UNCHANGED personData
    /\ submitted' = NoCall
    /\ formEvent' = "change"
    /\ UNCHANGED <<formKind, isEditMode, contactProp, contactType, roleFormVars, errors,
                   notForm>>

\* a click on the Person or the Organization button
SelectContactType ==
    /\ formKind = "contact"
    /\ \E clicked \in ContactTypes :
          contactType' = NextContactType(isEditMode, contactType, clicked)
    /\ errors' = NextErrorsOnClick(isEditMode, errors)
    /\ submitted' = NoCall
    /\ formEvent' = "select"
    /\ UNCHANGED <<formKind, isEditMode, contactProp, personData, orgData, roleFormVars,
                   notForm>>

\* ContactForm.handleSubmit
ContactSubmit ==
    /\ formKind = "contact"
    /\ LET issues == IF contactType = "person" THEN PersonIssues(personData)
                     ELSE OrganizationIssues(orgData)
       IN /\ errors' = issues
          /\ submitted' =
                IF DOMAIN issues = {}
                THEN [called |-> TRUE,
                      payload |-> ContactPayload(contactType, personData, orgData,
                                                 isEditMode)]
                ELSE NoCall
    /\ formEvent' = "submit"
    /\ UNCHANGED <<formKind, isEditMode, contactFormVars, roleFormVars, notForm>>

\* the onChange of a RoleForm input
RoleFieldChange ==
    /\ formKind = "role"
    /\ \E f \in RoleFields : \E v \in InputsOf(f) :
          /\ playerData' = IF roleType = "player" THEN [playerData EXCEPT ![f] = v]
                           ELSE playerData
          /\ partnerData' = IF roleType = "partner" THEN [partnerData EXCEPT ![f] = v]
                            ELSE partnerData
          /\ hncMemberData' = IF roleType = "hnc_member"
                              THEN [hncMemberData EXCEPT ![f] = v]
                              ELSE hncMemberData
    /\ submitted' = NoCall
    /\ formEvent' = "change"
    /\ UNCHANGED <<formKind, isEditMode, contactFormVars, existingRoleTypes, editRoleType,
                   roleType, errors, notForm>>

\* a click on one of the three role type buttons
SelectRoleType ==
    /\ formKind = "role"
    /\ \E type \in RoleKinds :
          IF ~IsRoleTypeDisabled(isEditMode, editRoleType, existingRoleTypes, type)
          THEN /\ roleType' = type
               /\ errors' = NoErrors
          ELSE UNCHANGED <<roleType, errors>>
    /\ submitted' = NoCall
    /\ formEvent' = "select"
    /\ UNCHANGED <<formKind, isEditMode, contactFormVars, existingRoleTypes, editRoleType,
                   playerData, partnerData, hncMemberData, notForm>>

\* the safeParse of the schema of the selected role type
RoleIssues ==
    IF roleType = "player" THEN ShortNameIssues(playerData)
    ELSE IF roleType = "partner" THEN ShortNameIssues(partnerData)
    ELSE HncMemberIssues(hncMemberData, isEditMode)

\* RoleForm.handleSubmit; the submit button is disabled when every role is assigned
RoleSubmit ==
    /\ formKind = "role"
    /\ ~AllRolesAssigned(isEditMode, existingRoleTypes)
    /\ LET issues == RoleIssues
       IN /\ errors' = issues
          /\ submitted' =
                IF DOMAIN issues = {}
                THEN [called |-> TRUE,
                      type |-> roleType,
                      payload |-> RolePayload(roleType, playerData, partnerData,
                                              hncMemberData, isEditMode)]
                ELSE NoCall
    /\ formEvent' = "submit"
    /\ UNCHANGED <<formKind, isEditMode, contactFormVars, roleFormVars, notForm>>

InitForm ==
    /\ PageIdle
    /\ RolesIdle
    /\ HttpIdle
    /\ MutIdle
    /\ NotesIdle
    /\ QueryIdle
    /\ AddRoleIdle
    /\ ShellIdle
    /\ MountContactForm \/ MountRoleForm
    /\ errors = NoErrors
    /\ submitted = NoCall
    /\ formEvent = "mount"

NextForm ==
    \/ ContactFieldChange
    \/ SelectContactType
    \/ ContactSubmit
    \/ RoleFieldChange
    \/ SelectRoleType
    \/ RoleSubmit

SpecForm == InitForm /\ [][NextForm]_vars

-----------------------------------------------------------------------------
(* Adding a role in the side panel (part_003:89-107, 161-167, 341-347, 423-437) *)

PanelContact == "c1"

ListOf(kind) ==
    IF kind = "player" THEN "players"
    ELSE IF kind = "partner" THEN "partners"
    ELSE "hncMembers"

KindOf(list) == CHOOSE k \in RoleKinds : ListOf(k) = list

\* existingRoleTypes: the types whose list in the data of useContactRoles is not
\* empty; the data is undefined until the first response
ExistingRoleTypes(result) ==
    IF result = Pending THEN {}
    ELSE {k \in RoleKinds : Len(result.value[ListOf(k)]) > 0}

\* what a role endpoint answers: a role of another contact, and the role of the
\* contact if it holds one
ServerList(kind) ==
    <<Role(1, "c2")>> \o (IF kind \in serverRoles THEN <<Role(2, PanelContact)>> ELSE <<>>)

\* the prop of a mounted RoleForm follows the data of useContactRoles
RenderRoleForm ==
    existingRoleTypes' = IF isAddRoleModalOpen' THEN ExistingRoleTypes(rolesResult')
                         ELSE {}

\* the 'Add' button of the roles row: the modal opens and RoleForm is mounted
ClickAddRole ==
    /\ ~isAddRoleModalOpen
    /\ isAddRoleModalOpen' = TRUE
    /\ formKind' = "role"
    /\ isEditMode' = FALSE
    /\ editRoleType' = "none"
    /\ roleType' = InitialRoleType(FALSE, "none", ExistingRoleTypes(rolesResult))
    /\ playerData' = [shortName |-> "Ann"]
    /\ partnerData' = [shortName |-> "Ann"]
    /\ hncMemberData' = [fullName |-> "Ann", memberType |-> "employee",
                         memberCode |-> "", joinedDate |-> Today]
    /\ errors' = NoErrors
    /\ submitted' = NoCall
    /\ formEvent' = "mount"
    /\ UNCHANGED <<contactFormVars, rolesResult, addRoleVars, notAddRole>>
    /\ RenderRoleForm

\* RoleForm is unmounted: Modal renders nothing when it is closed
UnmountRoleForm ==
    /\ formKind' = "none"
    /\ isEditMode' = FALSE
    /\ roleType' = "player"
    /\ editRoleType' = "none"
    /\ playerData' = <<>>
    /\ partnerData' = <<>>
    /\ hncMemberData' = <<>>
    /\ errors' = NoErrors
    /\ UNCHANGED contactFormVars

\* onCancel / onClose of the add-role modal
CancelAddRole ==
    /\ isAddRoleModalOpen
    /\ isAddRoleModalOpen' = FALSE
    /\ UnmountRoleForm
    /\ submitted' = NoCall
    /\ formEvent' = "mount"
    /\ UNCHANGED <<rolesResult, addRoleVars, notAddRole>>
    /\ RenderRoleForm

\* RoleForm.handleSubmit and, when the input is valid, handleAddRole: the create
\* request of the selected type is issued and the modal is closed
AddRoleSubmit ==
    /\ isAddRoleModalOpen
    /\ ~AllRolesAssigned(isEditMode, existingRoleTypes)
    /\ createPending = "none"
    /\ IF DOMAIN RoleIssues = {}
       THEN /\ submitted' = [called |-> TRUE,
                             type |-> roleType,
                             payload |-> RolePayload(roleType, playerData, partnerData,
                                                     hncMemberData, isEditMode)]
            /\ createPending' = roleType
            /\ isAddRoleModalOpen' = FALSE
            /\ UnmountRoleForm
            /\ formEvent' = "mount"
       ELSE /\ errors' = RoleIssues
            /\ submitted' = NoCall
            /\ formEvent' = "submit"
            /\ UNCHANGED <<formKind, isEditMode, contactFormVars, roleType, editRoleType,
                           playerData, partnerData, hncMemberData, createPending,
                           isAddRoleModalOpen>>
    /\ UNCHANGED <<rolesResult, serverRoles, rolesFetching, notAddRole>>
    /\ RenderRoleForm

\* the create request settles; on success the roles query is invalidated and
\* fetched again
CreateRoleSettles ==
    /\ createPending # "none"
    /\ createPending' = "none"
    /\ \E ok \in BOOLEAN :
          IF ok
          THEN /\ serverRoles' = serverRoles \cup {createPending}
               /\ rolesFetching' = TRUE
          ELSE UNCHANGED <<serverRoles, rolesFetching>>
    /\ UNCHANGED <<rolesResult, isAddRoleModalOpen, formVars, notAddRole>>

\* getAllRolesForContact resolves: each of the three requests has succeeded or failed
RolesResponse ==
    /\ rolesFetching
    /\ rolesFetching' = FALSE
    /\ \E failed \in SUBSET RoleKinds :
          rolesResult' =
             GetAllRolesResult(
                [t \in RoleTypes |->
                    GetRolesByContact(
                       IF KindOf(t) \in failed THEN [kind |-> "error"]
                       ELSE [kind |-> "body", hasData |-> TRUE,
                             data |-> ServerList(KindOf(t))],
                       PanelContact)])
    /\ UNCHANGED <<serverRoles, createPending, isAddRoleModalOpen, formKind, isEditMode,
                   contactFormVars, editRoleType, roleType, playerData, partnerData,
                   hncMemberData, errors, submitted, formEvent, notAddRole>>
    /\ RenderRoleForm

\* the roles query is fetched again (window focus, an invalidation elsewhere)
RefetchRoles ==
    /\ ~rolesFetching
    /\ rolesFetching' = TRUE
    /\ UNCHANGED <<serverRoles, createPending, rolesResult, isAddRoleModalOpen, formVars,
                   notAddRole>>

InitAddRole ==
    /\ PageIdle
    /\ HttpIdle
    /\ MutIdle
    /\ NotesIdle
    /\ QueryIdle
    /\ FormIdle
    /\ rolesContact = PanelContact
    /\ roleFetch = [t \in RoleTypes |-> Pending]
    /\ roleSettled = [t \in RoleTypes |-> Pending]
    /\ rolesResult = Pending
    /\ serverRoles \in SUBSET RoleKinds
    /\ rolesFetching = TRUE
    /\ createPending = "none"
    /\ ShellIdle

NextAddRole ==
    \/ ClickAddRole
    \/ CancelAddRole
    \/ RoleFieldChange
    \/ SelectRoleType
    \/ AddRoleSubmit
    \/ CreateRoleSettles
    \/ RolesResponse
    \/ RefetchRoles

SpecAddRole == InitAddRole /\ [][NextAddRole]_vars

-----------------------------------------------------------------------------
(* Opening the edit modal (ContactsPage.tsx:183-194, 612-614, 749-753) *)

notEdit == <<serverVars, tabVars, resizeVars, addRoleVars, pageVars, clockVars, roleVars, httpVars, notesVars, formVars,
             queryVars, selectedContact, isCreateModalOpen, deletingContact,
             isAddRoleModalOpen, editingRole, removingRole, inFlight, queryCache>>

\* the details the page already holds for this contact, if any
HeldDetails(details, c) == details # NoData /\ details.of = DetailQuery(c)

\* handleOpenEditModal(contact): the modal opens at once with the details the page
\* holds for the contact, otherwise contactsApi.getById is called and awaited
HandleOpenEditModal ==
    /\ NoModalOpen
    /\ \E c \in ContactIds :
          /\ editRequested' = c
          /\ IF HeldDetails(selectedContactDetails, c)
             THEN /\ editingContact' = c
                  /\ formInput' = ""
                  /\ UNCHANGED editFetching
             ELSE /\ editFetching' = editFetching \cup {c}
                  /\ UNCHANGED <<editingContact, formInput>>
    /\ mutEvent' = NoSettle
    /\ UNCHANGED notEdit

\* the getById of an 'Edit Details' settles: setEditingContact(details), or a toast
EditDetailsArrive ==
    /\ \E c \in editFetching :
          /\ editFetching' = editFetching \ {c}
          /\ \E ok \in BOOLEAN :
                IF ok
                THEN /\ editingContact' = c
                     /\ formInput' = ""
                ELSE UNCHANGED <<editingContact, formInput>>
    /\ mutEvent' = NoSettle
    /\ UNCHANGED <<editRequested, notEdit>>

\* a row is clicked; a modal covers the table while it is open
EditSelectRow ==
    /\ NoModalOpen
    /\ SelectRow

InitEdit ==
    /\ PageIdle
    /\ RolesIdle
    /\ HttpIdle
    /\ NotesIdle
    /\ FormIdle
    /\ AddRoleIdle
    /\ selectedContact = NoContact
    /\ isCreateModalOpen = FALSE
    /\ editingContact = NoContact
    /\ deletingContact = NoContact
    /\ isAddRoleModalOpen = FALSE
    /\ editingRole = NoRole
    /\ removingRole = NoRole
    /\ formInput = ""
    /\ inFlight = [r \in MutationRequests |-> 0]
    /\ queryCache = [k \in QueryKeys |-> "stale"]
    /\ mutEvent = NoSettle
    /\ qParams = ListParams("", "", "", NoRange)
    /\ qData = [k \in Queries |-> NoData]
    /\ qFetching = {ListQuery(qParams)}
    /\ selectedContactDetails = NoData
    /\ view = ViewOf(qParams, qData, NoContact, NoData)
    /\ editFetching = {}
    /\ editRequested = NoContact
    /\ ServerIdle
    /\ TabIdle
    /\ ResizeIdle

NextEdit ==
    \/ HandleOpenEditModal
    \/ EditDetailsArrive
    \/ EditSelectRow
    \/ ResponseArrives
    \/ CloseModal
    \/ HandleUpdateContact
    \/ UpdateSettles

SpecEdit == InitEdit /\ [][NextEdit]_vars

-----------------------------------------------------------------------------
(* The notes field across contacts (SidePanel:69-71, 109-141; ContactsPage.tsx:738-758) *)

\* SidePanel is rendered without a key while a contact is selected, so a change of
\* the selected contact changes its props and keeps its state. Here serverNotes
\* holds the notes of every contact and a request names the contact it is sent for.
notPanel == <<shellVars, addRoleVars, pageVars, clockVars, roleVars, httpVars, queryVars,
              formVars, dialogVars, inFlight, queryCache, mutEvent>>

\* the notes the server holds for a contact at the start, and a text typed into
\* the field while the panel shows a contact
StoredFor(c) == "notes of " \o c
TypedFor(c) == "typed for " \o c

PanelTexts == {StoredFor(c) : c \in ContactIds} \cup {TypedFor(c) : c \in ContactIds}

\* the contact a text was stored or typed for
NotesOwner(t) == CHOOSE c \in ContactIds : t \in {StoredFor(c), TypedFor(c)}

DetailsFor(c, notes) ==
    [kind |-> "details", contactType |-> "person", notes |-> notes, of |-> c]

\* another row is clicked, or an arrow key moves the selection:
\* setSelectedContact(contact); setSelectedContactDetails(null)
PanelSelect ==
    /\ \E c \in ContactIds \ {selectedContact} : selectedContact' = c
    /\ contactDetails' = NoDetails
    /\ notesEvent' = "select"
    /\ UNCHANGED <<notesValue, isSavingNotes, notesInFlight, notesSaves, serverNotes,
                   notPanel>>

\* the detail query of the selected contact delivers, the first time or after an
\* invalidation: the page copies it into selectedContactDetails and the effect
\* of SidePanel sets notesValue (SidePanel:109-118)
PanelDetailsArrive ==
    /\ contactDetails' = DetailsFor(selectedContact, serverNotes[selectedContact])
    /\ contactDetails' # contactDetails
    /\ notesValue' = CurrentNotes(contactDetails')
    /\ notesEvent' = "detailsLoaded"
    /\ UNCHANGED <<selectedContact, isSavingNotes, notesInFlight, notesSaves, serverNotes,
                   notPanel>>

\* onChange of the textarea, which is rendered once the details are loaded
PanelNotesChange ==
    /\ contactDetails # NoDetails
    /\ notesValue' = TypedFor(selectedContact)
    /\ notesValue' # notesValue
    /\ notesEvent' = "change"
    /\ UNCHANGED <<selectedContact, contactDetails, isSavingNotes, notesInFlight,
                   notesSaves, serverNotes, notPanel>>

\* onBlur of the textarea: handleNotesSave up to its await (SidePanel:121-132)
PanelHandleNotesSave ==
    /\ notesEvent' = "blur"
    /\ IF contactDetails = NoDetails
       THEN UNCHANGED <<isSavingNotes, notesInFlight, notesSaves>>
       ELSE IF notesValue = CurrentNotes(contactDetails)
       THEN UNCHANGED <<isSavingNotes, notesInFlight, notesSaves>>
       ELSE /\ notesSaves < MaxSaves
            /\ isSavingNotes' = TRUE
            /\ notesInFlight' =
                 Append(notesInFlight,
                        [contact |-> selectedContact,
                         notes |-> IF notesValue = "" THEN "(null)" ELSE notesValue,
                         currentNotes |-> CurrentNotes(contactDetails)])
            /\ notesSaves' = notesSaves + 1
    /\ UNCHANGED <<selectedContact, contactDetails, notesValue, serverNotes, notPanel>>

\* the update request settles: handleNotesSave after its await
\* (SidePanel:133-140)
PanelSaveSettles ==
    /\ \E i \in 1..Len(notesInFlight), ok \in BOOLEAN :
         /\ notesInFlight' = [j \in 1..(Len(notesInFlight) - 1) |->
                                IF j < i THEN notesInFlight[j] ELSE notesInFlight[j + 1]]
         /\ IF ok
            THEN /\ serverNotes' = [serverNotes EXCEPT ![notesInFlight[i].contact] =
                                                          notesInFlight[i].notes]
                 /\ UNCHANGED notesValue
            ELSE /\ notesValue' = notesInFlight[i].currentNotes
                 /\ UNCHANGED serverNotes
    /\ isSavingNotes' = FALSE
    /\ notesEvent' = "settled"
    /\ UNCHANGED <<selectedContact, contactDetails, notesSaves, notPanel>>

\* a contact has just been selected and the panel mounted
InitPanel ==
    /\ PageIdle
    /\ RolesIdle
    /\ HttpIdle
    /\ selectedContact \in ContactIds
    /\ isCreateModalOpen = FALSE
    /\ editingContact = NoContact
    /\ deletingContact = NoContact
    /\ isAddRoleModalOpen = FALSE
    /\ editingRole = NoRole
    /\ removingRole = NoRole
    /\ formInput = ""
    /\ inFlight = <<>>
    /\ queryCache = <<>>
    /\ mutEvent = [name |-> "none", contact |-> "none", ok |-> TRUE]
    /\ contactDetails = NoDetails
    /\ notesValue = ""
    /\ isSavingNotes = FALSE
    /\ notesInFlight = <<>>
    /\ notesSaves = 0
    /\ serverNotes = [c \in ContactIds |-> StoredFor(c)]
    /\ notesEvent = "mount"
    /\ QueryIdle
    /\ FormIdle
    /\ AddRoleIdle
    /\ ShellIdle

NextPanel ==
    \/ PanelSelect
    \/ PanelDetailsArrive
    \/ PanelNotesChange
    \/ PanelHandleNotesSave
    \/ PanelSaveSettles

SpecPanel == InitPanel /\ [][NextPanel]_vars

-----------------------------------------------------------------------------
(* The list behind the status filter (ContactsPage.tsx:103-111, 204-212;
   contacts-api.ts:97-128) *)

ServerRow(i, active, type) ==
    [id |-> i, isActive |-> active, displayName |-> <<97>>, contactType |-> type]

ServerLists ==
    UNION { { [i \in 1..n |-> ServerRow(i, f[i][1], f[i][2])] :
                f \in [1..n -> BOOLEAN \X {"person", "organization"}] } :
            n \in 0..MaxServerContacts }

\* the value the server filters isActive by: "API treats "false" string as true"
\* (ContactsPage.tsx:204-205) when it has the coercion defect
ServerIsActive(param, coerces) ==
    IF param = Undefined THEN Undefined
    ELSE IF coerces THEN "true" ELSE param

\* GET /contacts?contactType&isActive&limit: the rows the server answers with
ServerGetAll(contacts, params, coerces) ==
    LET want == ServerIsActive(params.isActive, coerces)
        Matches(c) ==
            /\ params.contactType \in {Undefined, c.contactType}
            /\ want = Undefined \/ c.isActive = (want = "true")
        found == SelectSeq(contacts, Matches)
    IN SubSeq(found, 1, Min(Len(found), params.limit))

\* the list query settles with the answer of the server to the current params
ServerListResponse ==
    /\ listStatus \in {"loading", "success"}
    /\ rawContacts' =
          ServerGetAll(serverContacts,
                       ListParams(filterStatus, filterType, searchQuery, joinDateRange),
                       serverCoerces)
    /\ listStatus' = "success"
    /\ Did("listResponse")
    /\ UNCHANGED <<searchQuery, filterStatus, filterType, joinDateFilter, currentPage,
                   rowsPerPage, sortField, sortDirection, joinDateRange, clockVars,
                   roleVars, uiVars>>
    /\ RenderNext

InitServer ==
    /\ rawContacts = <<>>
    /\ listStatus = "loading"
    /\ searchQuery = ""
    /\ filterStatus = ""
    /\ filterType = ""
    /\ joinDateFilter = ""
    /\ currentPage = 1
    /\ rowsPerPage = 10
    /\ sortField = NoSort
    /\ sortDirection = "asc"
    /\ joinDateRange = NoRange
    /\ rendered = Pipeline(<<>>, "", NoSort, "asc", 10, 1)
    /\ lastAction = [name |-> "mount", pageBefore |-> 1]
    /\ now = FirstInstant
    /\ tz = 0
    /\ mountedAt = now
    /\ RolesIdle
    /\ HttpIdle
    /\ MutIdle
    /\ NotesIdle
    /\ QueryIdle
    /\ FormIdle
    /\ AddRoleIdle
    /\ EditIdle
    /\ serverContacts \in ServerLists
    /\ serverCoerces \in BOOLEAN
    /\ TabIdle
    /\ ResizeIdle

NextServer ==
    \/ ServerListResponse
    \/ SetFilterStatus
    \/ SetFilterType

SpecServer == InitServer /\ [][NextServer]_vars

-----------------------------------------------------------------------------
(* Keyboard navigation over the displayed page (ContactsPage.tsx:233-268) *)

notKeys == <<rawContacts, searchQuery, filterStatus, filterType, joinDateFilter,
             currentPage, rowsPerPage, sortField, sortDirection, listStatus,
             joinDateRange, clockVars, roleVars, httpVars, dialogVars, inFlight,
             queryCache, mutEvent, notesVars, qParams, qData, qFetching, view, formVars,
             addRoleVars, shellVars>>

RowIds == {"c1", "c2", "c3"}

\* the pages the table can show: rows of distinct contacts
KeyPages ==
    { p \in UNION { [1..n -> RowIds] : n \in 0..Cardinality(RowIds) } :
        \A i, j \in 1..Len(p) : i # j => p[i] # p[j] }

\* paging, sorting, filtering or a refetch puts other rows into paginatedContacts
KeysShowPage ==
    /\ \E p \in KeyPages \ {rendered.paginatedContacts} :
          rendered' = [paginatedContacts |-> p]
    /\ Did("showPage")
    /\ UNCHANGED <<selectedContact, selectedContactDetails, notKeys>>

\* row onClick (ContactsPage.tsx:536-545)
KeysClickRow ==
    /\ \E i \in 1..Len(rendered.paginatedContacts) :
          LET c == rendered.paginatedContacts[i]
          IN selectedContact' = IF selectedContact = c THEN NoContact ELSE c
    /\ selectedContactDetails' = NoData
    /\ Did("clickRow")
    /\ UNCHANGED <<rendered, notKeys>>

\* the detail query of the selected contact delivers (ContactsPage.tsx:113-115, 142-146)
KeysDetailsArrive ==
    /\ selectedContact # NoContact
    /\ selectedContactDetails' = Response(DetailQuery(selectedContact))
    /\ selectedContactDetails' # selectedContactDetails
    /\ Did("detailsArrive")
    /\ UNCHANGED <<selectedContact, rendered, notKeys>>

\* the keydown listener of the document runs handleKeyDown
KeysKeyDown ==
    /\ \E key \in Keys :
          LET r == HandleKeyDown(key, selectedContact, rendered.paginatedContacts)
          IN /\ selectedContact' = r.selected
             /\ selectedContactDetails' = IF r.clears THEN NoData
                                          ELSE selectedContactDetails
             /\ Did(key)
    /\ UNCHANGED <<rendered, notKeys>>

InitKeys ==
    /\ rawContacts = <<>>
    /\ listStatus = "success"
    /\ searchQuery = ""
    /\ filterStatus = ""
    /\ filterType = ""
    /\ joinDateFilter = ""
    /\ currentPage = 1
    /\ rowsPerPage = 10
    /\ sortField = NoSort
    /\ sortDirection = "asc"
    /\ joinDateRange = NoRange
    /\ rendered \in { [paginatedContacts |-> p] : p \in KeyPages }
    /\ lastAction = [name |-> "mount", pageBefore |-> 1]
    /\ now = FirstInstant
    /\ tz = 0
    /\ mountedAt = now
    /\ RolesIdle
    /\ HttpIdle
    /\ MutIdle
    /\ NotesIdle
    /\ qParams = "none"
    /\ qData = <<>>
    /\ qFetching = {}
    /\ selectedContactDetails = NoData
    /\ view = <<>>
    /\ FormIdle
    /\ AddRoleIdle
    /\ ShellIdle

NextKeys ==
    \/ KeysShowPage
    \/ KeysClickRow
    \/ KeysDetailsArrive
    \/ KeysKeyDown

SpecKeys == InitKeys /\ [][NextKeys]_vars

-----------------------------------------------------------------------------
(* The page around its filters: selection, tabs and modals
   (ContactsPage.tsx:69-94, 305, 332, 536-545, 592, 743-744, 768, 787) *)

SidePanelTabs == {"details", "gaming-accounts", "deals", "status", "notes"}

\* what the handlers outside the filter bar leave alone
AroundFrame ==
    UNCHANGED <<rawContacts, searchQuery, filterStatus, filterType, joinDateFilter,
                currentPage, rowsPerPage, sortField, sortDirection, listStatus,
                joinDateRange, rendered, clockVars, roleVars, httpVars, notesVars,
                qParams, qData, qFetching, view, formVars, addRoleVars, editVars,
                serverVars, resizeVars, editingContact, isAddRoleModalOpen, editingRole,
                removingRole, formInput, inFlight, queryCache, mutEvent>>

\* the responses the list query settles with here: no row, or two
AroundResponses ==
    { [i \in 1..n |-> Contact(i, i % 2 = 0, NameAt(1, i))] : n \in {0, MaxSmallLen} }

\* the list query settles (first load, or a refetch)
AroundListResponse ==
    /\ listStatus \in {"loading", "success"}
    /\ \E r \in AroundResponses : rawContacts' = r
    /\ listStatus' = "success"
    /\ Did("listResponse")
    /\ UNCHANGED <<searchQuery, filterStatus, filterType, joinDateFilter, currentPage,
                   rowsPerPage, sortField, sortDirection, joinDateRange, clockVars,
                   roleVars, uiVars>>
    /\ RenderNext

\* row onClick (ContactsPage.tsx:536-545)
AroundClickRow ==
    /\ TableShown
    /\ \E c \in ContactIds :
          IF selectedContact = c
          THEN /\ selectedContact' = NoContact
               /\ UNCHANGED sidePanelTab
          ELSE /\ sidePanelTab' = "details"
               /\ selectedContact' = c
    /\ selectedContactDetails' = [kind |-> "null"]
    /\ Did("clickRow")
    /\ UNCHANGED <<filtersExpanded, isCreateModalOpen, deletingContact>>
    /\ AroundFrame

\* a tab of the side panel: onTabChange={setSidePanelTab}
AroundTabChange ==
    /\ selectedContact # NoContact
    /\ \E t \in SidePanelTabs \ {sidePanelTab} : sidePanelTab' = t
    /\ Did("tabChange")
    /\ UNCHANGED <<selectedContact, selectedContactDetails, filtersExpanded,
                   isCreateModalOpen, deletingContact>>
    /\ AroundFrame

\* the Filters button: setFiltersExpanded(!filtersExpanded)
AroundToggleFilters ==
    /\ filtersExpanded' = ~filtersExpanded
    /\ Did("toggleFilters")
    /\ UNCHANGED <<selectedContact, selectedContactDetails, sidePanelTab,
                   isCreateModalOpen, deletingContact>>
    /\ AroundFrame

\* 'New Contact', or Delete in the side panel
AroundOpenModal ==
    /\ ~isCreateModalOpen /\ deletingContact = NoContact
    /\ \/ /\ isCreateModalOpen' = TRUE
          /\ UNCHANGED deletingContact
       \/ /\ selectedContact # NoContact
          /\ deletingContact' = selectedContact
          /\ UNCHANGED isCreateModalOpen
    /\ Did("openModal")
    /\ UNCHANGED <<selectedContact, selectedContactDetails, sidePanelTab, filtersExpanded>>
    /\ AroundFrame

\* onClose of the modal that is open
AroundCloseModal ==
    /\ isCreateModalOpen \/ deletingContact # NoContact
    /\ isCreateModalOpen' = FALSE
    /\ deletingContact' = NoContact
    /\ Did("closeModal")
    /\ UNCHANGED <<selectedContact, selectedContactDetails, sidePanelTab, filtersExpanded>>
    /\ AroundFrame

NextAround ==
    \/ AroundListResponse
    \/ HandleSort
    \/ SetRowsPerPage
    \/ SetFilterStatus
    \/ ClearFilters
    \/ AroundClickRow
    \/ AroundTabChange
    \/ AroundToggleFilters
    \/ AroundOpenModal
    \/ AroundCloseModal

SpecAround == Init /\ [][NextAround]_vars

-----------------------------------------------------------------------------
(* Resizing the side panel (ContactsPage.tsx:93-95, 270-288, 725-729) *)

\* window.innerWidth and e.clientX of a mouse event; the pointer can be
\* beyond the right edge of the window
InnerWidths == {800, 1200}
ClientXs == { 25 * k + d : k \in 0..MaxPointerSteps, d \in {0, 1} }

ClampWidth_NoLower(newWidth) == Min(newWidth, 700)

\* Math.min(Math.max(newWidth, 300), 700)
ClampWidth(newWidth) == Min(Max(newWidth, 300), 700)

ResizeFrame ==
    UNCHANGED <<rawContacts, searchQuery, filterStatus, filterType, joinDateFilter,
                currentPage, rowsPerPage, sortField, sortDirection, listStatus,
                joinDateRange, rendered, clockVars, roleVars, httpVars, mutVars,
                notesVars, queryVars, formVars, addRoleVars, editVars, serverVars,
                tabVars>>

\* handleMouseDown on the resize handle of the panel
HandleMouseDown ==
    /\ selectedContact # NoContact
    /\ isResizing' = TRUE
    /\ resizeListeners' = TRUE
    /\ Did("mouseDown")
    /\ UNCHANGED sidePanelWidth
    /\ ResizeFrame

\* the mouse moves over the document: handleMouseMove runs if it is a listener
HandleMouseMove ==
    /\ \E innerWidth \in InnerWidths, clientX \in ClientXs :
          IF resizeListeners /\ isResizing
          THEN sidePanelWidth' = ClampWidth(innerWidth - clientX)
          ELSE UNCHANGED sidePanelWidth
    /\ Did("mouseMove")
    /\ UNCHANGED <<isResizing, resizeListeners>>
    /\ ResizeFrame

\* the button is released over the document: handleMouseUp runs if it is a listener
HandleMouseUp ==
    /\ IF resizeListeners
       THEN /\ isResizing' = FALSE
            /\ resizeListeners' = FALSE
       ELSE UNCHANGED <<isResizing, resizeListeners>>
    /\ Did("mouseUp")
    /\ UNCHANGED sidePanelWidth
    /\ ResizeFrame

\* the page with a contact in the side panel
InitResize ==
    /\ PageIdle
    /\ RolesIdle
    /\ HttpIdle
    /\ selectedContact \in ContactIds
    /\ isCreateModalOpen = FALSE
    /\ editingContact = NoContact
    /\ deletingContact = NoContact
    /\ isAddRoleModalOpen = FALSE
    /\ editingRole = NoRole
    /\ removingRole = NoRole
    /\ formInput = ""
    /\ inFlight = <<>>
    /\ queryCache = <<>>
    /\ mutEvent = [name |-> "none", contact |-> "none", ok |-> TRUE]
    /\ NotesIdle
    /\ QueryIdle
    /\ FormIdle
    /\ AddRoleIdle
    /\ ShellIdle

NextResize ==
    \/ HandleMouseDown
    \/ HandleMouseMove
    \/ HandleMouseUp

SpecResize == InitResize /\ [][NextResize]_vars

-----------------------------------------------------------------------------
(* Properties of the pipeline *)

HasRendered == rendered # NotRendered

Rows(s) == {s[i] : i \in 1..Len(s)}

\* C1: with the status filter 'active' (resp. 'inactive') every row of the
\* filtered list has isActive = TRUE (resp. FALSE), whatever the server sent;
\* with the empty status filter every row of the response is retained.
C1_StatusRefilter ==
    HasRendered =>
        /\ rendered.filterStatus = "active" =>
               \A c \in Rows(rendered.filteredContacts) : c.isActive = TRUE
        /\ rendered.filterStatus = "inactive" =>
               \A c \in Rows(rendered.filteredContacts) : c.isActive = FALSE
        /\ rendered.filterStatus = "" =>
               rendered.filteredContacts = rendered.rawContacts

\* the server sent rows of both statuses and the page filters on 'inactive'
C1_Witness ==
    /\ HasRendered
    /\ rendered.filterStatus = "inactive"
    /\ \E c \in Rows(rendered.rawContacts) : c.isActive
    /\ rendered.filteredContacts # <<>>

\* the lower-cased sort key of the claim: a null name counts as ""
LowerName(c) ==
    LET v == IF c.displayName = Null THEN <<>> ELSE c.displayName
    IN [i \in 1..Len(v) |-> IF v[i] \in 65..90 THEN v[i] + 32 ELSE v[i]]

\* position of a row in the list that was sorted
PosIn(s, c) == CHOOSE i \in 1..Len(s) : s[i].id = c.id

\* C2: the sort is stable and case-insensitive: rows with equal lower-cased
\* keys keep their input order in both directions, rows with different keys
\* are in key order for 'asc' and in reverse key order for 'desc'.
C2_StableSort ==
    (HasRendered /\ rendered.sortField = "displayName") =>
        LET in == rendered.filteredContacts
            out == rendered.allContacts
        IN /\ Len(out) = Len(in)
           /\ Rows(out) = Rows(in)
           /\ \A i \in 1..Len(out) : \A j \in (i + 1)..Len(out) :
                 LET ki == LowerName(out[i])
                     kj == LowerName(out[j])
                 IN IF ki = kj THEN PosIn(in, out[i]) < PosIn(in, out[j])
                    ELSE IF rendered.sortDirection = "asc" THEN StrLess(ki, kj)
                    ELSE StrLess(kj, ki)

\* a descending sort of a list with two names that differ only in case and a
\* third name
C2_Witness ==
    /\ HasRendered
    /\ rendered.sortField = "displayName"
    /\ rendered.sortDirection = "desc"
    /\ \E i, j, k \in 1..Len(rendered.filteredContacts) :
          LET in == rendered.filteredContacts
          IN /\ i < j
             /\ in[i].displayName # in[j].displayName
             /\ LowerName(in[i]) = LowerName(in[j])
             /\ LowerName(in[k]) # LowerName(in[i])

\* the number of rows of the response that match the status filter
MatchCount(raw, status) ==
    Cardinality({i \in 1..Len(raw) :
                   \/ status = ""
                   \/ status = "active" /\ raw[i].isActive
                   \/ status = "inactive" /\ ~raw[i].isActive})

\* C3: totalItems is the length of the filtered and sorted list, totalPages is
\* ceil(totalItems / pageSize) and 0 exactly when there are no items, and a
\* page in 1..totalPages shows the slice [(p-1)*size, min(p*size, totalItems)),
\* of pageSize rows except possibly on the last page (25 contacts, 15 active,
\* filter 'active', page size 10, page 2: 5 rows, 2 pages).
C3_Pagination ==
    HasRendered =>
        LET r == rendered
            n == r.totalItems
            size == r.rowsPerPage
            p == r.currentPage
        IN /\ n = MatchCount(r.rawContacts, r.filterStatus)
           /\ n = Len(r.allContacts)
           /\ r.totalPages * size >= n
           /\ (r.totalPages - 1) * size < n \/ (n = 0 /\ r.totalPages = 0)
           /\ (r.totalPages = 0) <=> (n = 0)
           /\ p \in 1..r.totalPages =>
                /\ r.paginatedContacts =
                      [i \in 1..(Min(p * size, n) - (p - 1) * size) |->
                          r.allContacts[(p - 1) * size + i]]
                /\ p < r.totalPages => Len(r.paginatedContacts) = size
                /\ p = r.totalPages =>
                      Len(r.paginatedContacts) = n - (r.totalPages - 1) * size
           /\ ( /\ Len(r.rawContacts) = 25
                /\ MatchCount(r.rawContacts, "active") = 15
                /\ r.filterStatus = "active" /\ size = 10 /\ p = 2 )
              => (Len(r.paginatedContacts) = 5 /\ r.totalPages = 2)

\* the scenario of 25 contacts, 15 of them active, on page 2 of 2
C3_Witness ==
    /\ HasRendered
    /\ Len(rendered.rawContacts) = 25
    /\ MatchCount(rendered.rawContacts, "active") = 15
    /\ rendered.filterStatus = "active"
    /\ rendered.sortField = "displayName"
    /\ rendered.sortDirection = "asc"
    /\ rendered.rowsPerPage = 10
    /\ rendered.currentPage = 2
    /\ Len(rendered.paginatedContacts) = 5

\* C4: a page number greater than totalPages (any page number when the list
\* is empty) yields an empty row list: no error, no negative length, no rows
\* of another page.
C4_OutOfRangePage ==
    (HasRendered /\ rendered.currentPage > rendered.totalPages) =>
        /\ rendered.paginatedContacts = <<>>
        /\ Len(rendered.paginatedContacts) = 0

\* a page beyond the last one of a list that has rows
C4_Witness ==
    /\ HasRendered
    /\ rendered.totalItems > 0
    /\ rendered.currentPage > rendered.totalPages
    /\ rendered.startIndex > rendered.endIndex

-----------------------------------------------------------------------------
(* Properties of the page *)

PageResetActions ==
    {"setSearchQuery", "setFilterType", "setFilterStatus", "setJoinDateFilter",
     "handleSort", "setRowsPerPage"}

\* C5: right after editing the search text, changing the type, status or
\* join-date filter, clicking the sort header or changing rows-per-page, the
\* current page number is 1, whatever it was before.
C5_PageResetOnChange ==
    lastAction.name \in PageResetActions =>
        (currentPage = 1 /\ rendered.currentPage = 1)

\* the sort header was clicked on a later page
C5_Witness ==
    /\ lastAction.name = "handleSort"
    /\ lastAction.pageBefore > 1
    /\ currentPage = 1

\* C6: 'Clear all filters' resets search, status, type and join-date filter
\* and the page number in one transition: the render and the list request
\* that follow see all five reset.
C6_ClearFiltersAtomic ==
    lastAction.name = "clearFilters" =>
        /\ searchQuery = "" /\ filterStatus = "" /\ filterType = ""
        /\ joinDateFilter = "" /\ currentPage = 1
        /\ rendered.filterStatus = "" /\ rendered.currentPage = 1
        /\ ListParams(filterStatus, filterType, searchQuery, joinDateRange)
             = ListParams("", "", "", NoRange)

\* filters were cleared from a later page
C6_Witness ==
    /\ lastAction.name = "clearFilters"
    /\ lastAction.pageBefore > 1
    /\ listStatus = "loading"

-----------------------------------------------------------------------------
(* Properties of getJoinDateRange *)

Evaluated(bucket) == lastAction.name = "getJoinDateRange" /\ joinDateFilter = bucket

\* C7: getJoinDateRange('last_year') at any instant of local year Y returns
\* (Y-1)-01-01 .. (Y-1)-12-31, in every time zone.
C7_LastYear ==
    Evaluated("last_year") =>
        LET Y == LocalDate(now, tz)[1]
        IN /\ joinDateRange.joinDateFrom = <<Y - 1, 1, 1>>
           /\ joinDateRange.joinDateTo = <<Y - 1, 12, 31>>

\* the local calendar day n days before the local day of an instant
LocalDayMinus(t, zone, n) == CivilFromDays((t + zone) \div 24 - n)

DateLeq(a, b) == DaysFromCivil(a[1], a[2], a[3]) <= DaysFromCivil(b[1], b[2], b[3])

\* C8: for 'last_30_days', 'last_90_days' and 'this_year' joinDateTo is the
\* user's current calendar day and joinDateFrom is that day minus 30 days,
\* minus 90 days, resp. January 1 of the current year, with from <= to, at
\* every time of day and in every time zone.
C8_TodayAnchored ==
    /\ Evaluated("last_30_days") =>
          /\ joinDateRange.joinDateTo = LocalDate(now, tz)
          /\ joinDateRange.joinDateFrom = LocalDayMinus(now, tz, 30)
    /\ Evaluated("last_90_days") =>
          /\ joinDateRange.joinDateTo = LocalDate(now, tz)
          /\ joinDateRange.joinDateFrom = LocalDayMinus(now, tz, 90)
    /\ Evaluated("this_year") =>
          /\ joinDateRange.joinDateTo = LocalDate(now, tz)
          /\ joinDateRange.joinDateFrom = <<LocalDate(now, tz)[1], 1, 1>>
    /\ (lastAction.name = "getJoinDateRange" /\ joinDateFilter # "") =>
          DateLeq(joinDateRange.joinDateFrom, joinDateRange.joinDateTo)

\* C9: the join-date range a render uses for the list request is the one
\* derived from the day of that render, also when the day has changed since
\* the bucket was selected.
C9_RangeTracksDay ==
    lastAction.name \notin {"tick", "mount"} =>
        joinDateRange = GetJoinDateRange(joinDateFilter, now, tz)

-----------------------------------------------------------------------------
(* Properties of getAllRolesForContact *)

\* C10: getAllRolesForContact always resolves: each type whose request failed
\* holds an empty list, each type whose request succeeded its fetched list.
C10_RolesPartialFailure ==
    rolesResult # Pending =>
        /\ rolesResult.status = "fulfilled"
        /\ \A t \in RoleTypes :
             /\ roleSettled[t].status = "rejected" => rolesResult.value[t] = <<>>
             /\ roleSettled[t].status = "fulfilled" =>
                   rolesResult.value[t] = roleSettled[t].value

\* the HNC-members request failed, the other two returned roles of the contact
C10_Witness ==
    /\ rolesResult # Pending
    /\ roleFetch["hncMembers"].kind = "error"
    /\ roleSettled["players"].status = "fulfilled" /\ roleSettled["players"].value # <<>>
    /\ roleSettled["partners"].status = "fulfilled" /\ roleSettled["partners"].value # <<>>
    /\ rolesResult.status = "fulfilled"

\* C11: every role that getPlayersByContact, getPartnersByContact and
\* getHncMembersByContact return for contact c has contactId = c, whatever
\* the server sent (roles of other contacts, of no contact); a response
\* without a data field gives the empty list.
C11_RolesOfContactOnly ==
    \A t \in RoleTypes :
        (roleSettled[t] # Pending /\ roleSettled[t].status = "fulfilled") =>
            /\ \A i \in 1..Len(roleSettled[t].value) :
                  roleSettled[t].value[i].contactId = rolesContact
            /\ (roleFetch[t].kind = "body" /\ ~roleFetch[t].hasData) =>
                  roleSettled[t].value = <<>>

\* the players endpoint returned a role of the contact and one of another contact
C11_Witness ==
    /\ roleFetch["players"].kind = "body"
    /\ roleFetch["players"].hasData
    /\ Len(roleFetch["players"].data) > 1
    /\ \E i \in 1..Len(roleFetch["players"].data) :
          roleFetch["players"].data[i].contactId # rolesContact
    /\ roleSettled["players"] # Pending
    /\ roleSettled["players"].status = "fulfilled"
    /\ roleSettled["players"].value # <<>>


-----------------------------------------------------------------------------
(* Properties of apiFetch *)

HttpSettled == httpResult.kind \in {"resolved", "rejected"}

\* C12: apiFetch calls fetch once and maps what fetch settles with: a 204
\* resolves with undefined; any other status outside 200..299 rejects with an
\* ApiError that carries that status and the parsed body ({} when the body is
\* not JSON); a transport failure rejects with fetch's own error; a resolved
\* call had a 2xx response.
C12_HttpMapping ==
    HttpSettled =>
        /\ fetchCalls = 1
        /\ httpReply.kind = "failure" => httpResult = Thrown(httpReply.error)
        /\ httpReply.kind = "response" =>
              /\ httpReply.status = 204 => httpResult = Resolved(Undefined)
              /\ (httpReply.status # 204 /\ ~Ok(httpReply.status)) =>
                    /\ httpResult.kind = "rejected"
                    /\ httpResult.error.name = "ApiError"
                    /\ httpResult.error.status = httpReply.status
                    /\ httpResult.error.data =
                          (IF httpReply.body.json = "invalid" THEN EmptyObject
                           ELSE httpReply.body)
        /\ httpResult.kind = "resolved" =>
              (httpReply.kind = "response" /\ Ok(httpReply.status))

-----------------------------------------------------------------------------
(* Properties of the mutations *)

\* C13: of each contact mutation (create; update, delete, activate /
\* deactivate of one contact) at most one request awaits the server at any
\* time, its control being disabled until the request settles.
C13_OneInFlight ==
    \A r \in ContactRequests : inFlight[r] =< 1

\* a request left in this step
Submitted == \E r \in MutationRequests : inFlight'[r] = inFlight[r] + 1

\* a request settled with a failure in this step
Failed ==
    /\ \E r \in MutationRequests : inFlight'[r] = inFlight[r] - 1
    /\ ~mutEvent'.ok

\* C14: a failed mutation request changes neither the modals, nor the form
\* input, nor the selection; and the submit that sent a request leaves its
\* modal open and the input as typed (a modal is closed by the user or by the
\* success of its request, not before).
C14_FailureKeepsForm ==
    [][ /\ Failed => UNCHANGED modalVars
        /\ Submitted => UNCHANGED modalVars ]_vars

\* the request that settled in this step
SettledNow(r) == inFlight'[r] = inFlight[r] - 1

-----------------------------------------------------------------------------
(* Properties of the notes field *)

\* C16: the notes field issues an update request only in its blur handler,
\* never on a change of the text, and only when the details are loaded and
\* the text differs from their notes (null notes counting as ''); a blur with
\* the text unchanged, or without loaded details, issues none.
C16_NotesSaveOnBlur ==
    [][ /\ notesSaves' # notesSaves =>
              /\ notesEvent' = "blur"
              /\ notesSaves' = notesSaves + 1
              /\ contactDetails # NoDetails
              /\ notesValue # (IF contactDetails.notes = "(null)" THEN ""
                               ELSE contactDetails.notes)
        /\ (notesEvent' = "blur" /\ contactDetails = NoDetails) => notesSaves' = notesSaves
        /\ (/\ notesEvent' = "blur"
            /\ contactDetails # NoDetails
            /\ notesValue = (IF contactDetails.notes = "(null)" THEN ""
                             ELSE contactDetails.notes)) => notesSaves' = notesSaves
        /\ notesEvent' = "change" => notesSaves' = notesSaves
      ]_vars

\* a changed text was saved on blur, and a later blur of the field, emptied
\* for a contact without notes, has issued nothing
C16_Witness ==
    /\ notesSaves = 1
    /\ notesEvent = "blur"
    /\ contactDetails # NoDetails
    /\ contactDetails.notes = "(null)"
    /\ notesValue = ""
    /\ notesInFlight = <<>>

-----------------------------------------------------------------------------
(* Properties of the queries *)

\* C17: whatever order the responses arrive in, the rows the table is
\* rendered with come from a response to the request with the current params,
\* the details and the roles the side panel is rendered with from responses
\* for the selected contact; with nothing selected the panel gets none.
C17_ViewOfCurrentKeys ==
    /\ view.rows # NoData => view.rows.of = ListQuery(qParams)
    /\ view.contact = selectedContact
    /\ view.contactDetails # NoData =>
          (selectedContact # NoContact /\ view.contactDetails.of = DetailQuery(selectedContact))
    /\ selectedContactDetails # NoData =>
          (selectedContact # NoContact
             /\ selectedContactDetails.of = DetailQuery(selectedContact))
    /\ view.roles # NoData =>
          (selectedContact # NoContact /\ view.roles.of = RolesQuery(selectedContact))

\* c2 is shown with its details while the list for other params and the
\* details of c1, asked for earlier, have arrived or are still awaited
C17_Witness ==
    /\ selectedContact = "c2"
    /\ view.contactDetails = Response(DetailQuery("c2"))
    /\ view.rows = Response(ListQuery(qParams))
    /\ qData[DetailQuery("c1")] # NoData
    /\ \E p \in QParams : p # qParams /\ ListQuery(p) \in qFetching

\* the required fields of the selected type that are empty, and the email if it is
\* malformed; memberCode and joinedDate count when hncRequired holds
FailingFields(hncRequired) ==
    IF formKind = "contact"
    THEN IF contactType = "person"
         THEN {f \in {"firstName"} : personData.firstName = ""}
              \cup {f \in {"email"} : personData.email # "" /\ ~IsEmail(personData.email)}
         ELSE {f \in {"legalName"} : orgData.legalName = ""}
    ELSE IF roleType = "player" THEN {f \in {"shortName"} : playerData.shortName = ""}
    ELSE IF roleType = "partner" THEN {f \in {"shortName"} : partnerData.shortName = ""}
    ELSE {f \in {"fullName"} : hncMemberData.fullName = ""}
         \cup {f \in {"memberCode", "joinedDate"} : hncRequired /\ hncMemberData[f] = ""}

C19_EditKeepsType ==
    (formKind = "contact" /\ isEditMode) =>
       /\ contactType = contactProp
       /\ formEvent = "submit" =>
             DOMAIN errors \subseteq
                (IF contactProp = "person" THEN {"firstName", "email"} ELSE {"legalName"})
       /\ submitted.called =>
             /\ "contactType" \notin DOMAIN submitted.payload
             /\ IF contactProp = "person"
                THEN /\ DOMAIN submitted.payload = {"displayName", "firstName", "email"}
                     /\ submitted.payload.firstName = personData.firstName
                ELSE /\ DOMAIN submitted.payload = {"displayName", "legalName"}
                     /\ submitted.payload.legalName = orgData.legalName

C19_Witness ==
    /\ formKind = "contact"
    /\ isEditMode
    /\ contactProp = "organization"
    /\ formEvent = "select"
    /\ "legalName" \in DOMAIN errors


\* C20: the add-role form never issues a create request for a role type the contact
\* already holds, whatever the role fetches returned (loading, partly failed, stale),
\* so a contact does not end up with two roles of one type.
C20_NoSecondRoleOfType ==
    createPending \in RoleKinds => createPending \notin serverRoles


\* C21: every request the fetch wrappers send, to the contacts service (which also
\* serves the roles) or to the gaming-accounts service, carries an Authorization
\* header with the bearer token of the auth collaborator.
C21_BearerOnEveryRequest ==
    httpRequest.kind = "sent" =>
        /\ httpRequest.call.token \notin {NoToken, ""}
        /\ httpRequest.headers.authorization = "Bearer " \o httpRequest.call.token


\* C22: whenever the list is shown, 1 <= currentPage <= max(1, totalPages), also
\* after a refetch that changed the number of rows; with rows in the list the page
\* shown is not empty and the range 'Showing a-b of n' has a <= b.
C22_PageInRange ==
    (HasRendered /\ listStatus = "success") =>
        /\ 1 =< currentPage
        /\ currentPage =< Max(1, rendered.totalPages)
        /\ rendered.totalItems > 0 =>
              /\ rendered.paginatedContacts # <<>>
              /\ rendered.startIndex + 1 =< rendered.endIndex


\* the detail query of the selected contact has data
DetailsAvailable ==
    selectedContact # NoContact /\ ContactDetailsOf(qData, selectedContact) # NoData

\* C23: whenever a contact is selected and the detail query of its id has data, the
\* details of the side panel eventually equal that data (or the selection changes):
\* the panel does not stay with null details for a loaded contact.
C23_DetailsEventuallyShown ==
    DetailsAvailable ~>
       (~DetailsAvailable \/
          selectedContactDetails = ContactDetailsOf(qData, selectedContact))

\* C24: if selectedContactDetails is not null, a contact is selected and the details
\* are those of the selected contact.
C24_DetailsOfSelected ==
    selectedContactDetails # NoData =>
       /\ selectedContact # NoContact
       /\ selectedContactDetails.of = DetailQuery(selectedContact)

\* the details of c2 are shown while the cache also holds the details of c1
C24_Witness ==
    /\ selectedContact = "c2"
    /\ selectedContactDetails = Response(DetailQuery("c2"))
    /\ QueryDataOf(qData, DetailQuery("c1")) # NoData


UpdateSentTo(c) ==
    LET r == [action |-> "update", contact |-> c] IN inFlight'[r] > inFlight[r]

\* C25: the edit modal shows the contact for which 'Edit Details' was chosen last,
\* in whatever order the detail responses arrive, and an update goes to the id of
\* that contact.
C25_LastEditWins ==
    [][ /\ editingContact' # NoContact => editingContact' = editRequested'
        /\ \A c \in ContactIds : UpdateSentTo(c) => c = editRequested ]_vars

-----------------------------------------------------------------------------
(* Properties of the notes field across contacts *)

\* C26: a notes update request for a contact carries a text that was stored or
\* typed for that contact, never the text of another contact, whatever the
\* order of edits, blurs, contact switches, detail loads and settled saves.
C26_NotesOfOwnContact ==
    \A i \in 1..Len(notesInFlight) :
        NotesOwner(notesInFlight[i].notes) = notesInFlight[i].contact

-----------------------------------------------------------------------------
(* Properties of the list behind the status filter *)

\* the inactive contacts the server holds that match the type filter
ServerInactive ==
    { serverContacts[i] : i \in { j \in 1..Len(serverContacts) :
          /\ ~serverContacts[j].isActive
          /\ filterType \in {"", serverContacts[j].contactType} } }

\* C27: with the status filter on 'inactive' the rows shown over all pages are
\* exactly the inactive contacts the server holds that match the other
\* filters, also when the server reads isActive=false as true.
C27_InactiveRowsComplete ==
    (listStatus = "success" /\ filterStatus = "inactive") =>
        { rendered.allContacts[i] : i \in 1..Len(rendered.allContacts) } = ServerInactive

-----------------------------------------------------------------------------
(* Properties of the keyboard navigation *)

\* C28: from row i of a displayed page of n rows ArrowDown selects row
\* (i+1) mod n and ArrowUp row (i-1) mod n of that page; with nothing
\* selected, or with the selected contact not on the page, the arrow keys
\* change neither the selection nor the details; Escape with a contact
\* selected clears the selection and the details.
C28_ArrowsWrapOnPage ==
    [][ LET page == rendered.paginatedContacts
            n == Len(page)
            i == FindIndex(page, selectedContact)
            key == lastAction'.name
        IN /\ (key = "ArrowDown" /\ selectedContact # NoContact /\ i # -1) =>
                  selectedContact' = page[((i + 1) % n) + 1]
           /\ (key = "ArrowUp" /\ selectedContact # NoContact /\ i # -1) =>
                  selectedContact' = page[((i + n - 1) % n) + 1]
           /\ (key \in {"ArrowUp", "ArrowDown"} /\ (selectedContact = NoContact \/ i = -1)) =>
                  UNCHANGED <<selectedContact, selectedContactDetails>>
           /\ (key = "Escape" /\ selectedContact # NoContact) =>
                  /\ selectedContact' = NoContact
                  /\ selectedContactDetails' = NoData
      ]_vars

\* ArrowDown on the last of three rows has wrapped to the first one
C28_Witness ==
    /\ lastAction.name = "ArrowDown"
    /\ Len(rendered.paginatedContacts) = Cardinality(RowIds)
    /\ selectedContact = rendered.paginatedContacts[1]
    /\ selectedContactDetails = NoData

-----------------------------------------------------------------------------
(* Properties of the page around its filters *)

\* C29: 'Clear all filters' changes the four filter fields and the page
\* number only: sort field, sort direction, rows per page, selected contact,
\* side-panel tab and the open modals are after it what they were before.
C29_ClearFiltersFrame ==
    [][ lastAction'.name = "clearFilters" =>
           UNCHANGED <<sortField, sortDirection, rowsPerPage, selectedContact,
                       sidePanelTab, isCreateModalOpen, editingContact,
                       deletingContact>> ]_vars

\* the filters were cleared with a sort, another page size, a selection on the
\* notes tab and an open modal in place
C29_Witness ==
    /\ lastAction.name = "clearFilters"
    /\ filterStatus = "" /\ currentPage = 1
    /\ sortField = "displayName" /\ sortDirection = "desc"
    /\ rowsPerPage = 50
    /\ selectedContact = "c2"
    /\ sidePanelTab = "notes"
    /\ deletingContact = "c2"

-----------------------------------------------------------------------------
(* Properties of the side-panel width *)

\* C30: the width of the side panel starts at 420 and stays within 300..700
\* through every sequence of mouse-down, mouse-move and mouse-up events, and
\* it changes only on a mouse move during a drag: a move before a mouse-down
\* or after a mouse-up leaves it as it is.
C30_WidthInRange ==
    /\ sidePanelWidth = 420
    /\ [](300 =< sidePanelWidth /\ sidePanelWidth =< 700)
    /\ [][ sidePanelWidth' # sidePanelWidth =>
              (isResizing /\ lastAction'.name = "mouseMove") ]_vars

\* a drag has pushed the width to its lower limit, and the mouse has moved
\* again after the mouse-up
C30_Witness ==
    /\ sidePanelWidth = 300
    /\ ~isResizing
    /\ ~resizeListeners
    /\ lastAction.name = "mouseMove"

====
